---- MODULE Spec2Model ----
(***************************************************************************)
(* leshy: DNS-driven split-tunnel router.                                  *)
(*                                                                         *)
(* Part 1: the route aggregator (src/src/routing/aggregator.rs) and the    *)
(* route manager that drives the platform installer with the aggregator's  *)
(* actions (src/src/routing/mod.rs, src/src/routing/linux.rs).             *)
(*                                                                         *)
(* Part 2: the DNS cache (src/src/dns/cache.rs), the zone matcher          *)
(* (src/src/zones/matcher.rs) and the request handler                      *)
(* (src/src/dns/handler.rs).                                               *)
(*                                                                         *)
(* IPv4 addresses are AddrBits wide here (32 in the program); a prefix     *)
(* length ranges over 0..AddrBits and "/32" reads "/AddrBits".             *)
(***************************************************************************)
EXTENDS Integers, Sequences, FiniteSets, TLC

\* ------------------------------------------------------------------ bounds

\* Width of an address in bits (u32 in the program).
AddrBits == 3

\* Number of calls (process_ip, register_static_ip, cleanup_zone) one behaviour
\* of SpecAgg makes on the aggregator.
MaxAggCalls == 5

\* Number of route-manager calls (add_route, add_static_route, cleanup_zone)
\* one behaviour of SpecMgr starts.
MaxCalls == 2

\* Number of add_route calls one behaviour of SpecRace starts.
MaxRaceCalls == 3

\* ------------------------------------------------------------------ inputs

\* The addresses DNS answers and static routes carry.
IPs == {0, 1, 3}

\* config::ZoneConfig, the fields the routing code reads.
Zones ==
    { [name |-> "z1", route_type |-> "Via", route_target |-> "gw1"],
      [name |-> "z2", route_type |-> "Dev", route_target |-> "/run/z2.dev"] }

ZoneNames == { z.name : z \in Zones }

\* RouteAggregator::new(prefix_len: Option<u8>): None is <<>>, Some(p) is <<p>>.
PrefixOptions == { <<>> } \cup { <<p>> : p \in 1..AddrBits }

\* Static routes of the configuration, as parse_cidr returns them.
StaticCidrs == { <<0, AddrBits - 1>>, <<3, AddrBits>> }

\* config::ServerConfig (TTLs in seconds, scaled down; min <= max here).
ServerConfig(route_failure_mode, cache_size) ==
    [route_failure_mode |-> route_failure_mode,
     default_upstream |-> << "d1" >>,
     cache_size |-> cache_size,
     cache_min_ttl |-> 1, cache_max_ttl |-> 1, cache_negative_ttl |-> 1]

\* The reload handler task of run_server, waiting for a new configuration.
ReloadIdle ==
    [pc |-> "idle", count |-> 0, new |-> <<>>, old_zones |-> <<>>,
     to_cleanup |-> {}, cleaned |-> {}, new_zones |-> <<>>, before |-> <<>>,
     outcome |-> "none", items |-> <<>>, failures |-> 0]

VARIABLES
    prefix_len,     \* RouteAggregator.prefix_len
    installed,      \* RouteAggregator.installed : (network, prefix_len) -> RouteOwner
    known_ips,      \* RouteAggregator.known_ips : ip -> zone name
    last_call,      \* the most recent call on the aggregator
    actions,        \* the Vec<RouteAction> the most recent process_ip returned
    zone_routes,    \* RouteManager.zone_routes : zone name -> set of addresses
    kernel,         \* the kernel routing table the installer writes
    tasks,          \* add_route calls in flight: their pending actions
    calls,          \* number of calls made so far
    static_regs,    \* static routes add_static_route has registered
    failed,         \* whether some installer call returned an error
    cache_entries,  \* DnsCache.entries : (lowercased qname, qtype) -> CacheEntry
    max_entries,    \* DnsCache.max_entries
    now,            \* the clock Instant::now() reads
    cache_op,       \* the most recent direct call on the cache and what it returned
    insert_deadline, \* per key, the latest expiry time over all direct insert calls
    last_insert,    \* per key, the most recent direct insert call since the last clear
    matcher_zones,  \* ZoneMatcher.zones, in configured order
    match_call,     \* the most recent direct find_zone call and what it returned
    config,         \* DnsHandler.config.server
    requests,       \* DnsHandler::handle_request calls: those in flight, in
                    \* full, and the ids of those answered
    answered,       \* the handle_request call answered last, in full
    fanout,         \* route tasks add_routes_from_response has spawned
    config_zones,   \* DnsHandler.config.zones, in configured order
    reload,         \* the reload handler task of run_server
    passes,         \* the startup code and the retry_static_routes tasks
    installer_ok,   \* whether device files are there and the kernel takes routes
    ttl_call        \* the most recent upstream selection and resolve_cache_ttl call

aggVars == <<prefix_len, installed, known_ips, last_call, actions>>
mgrVars == <<zone_routes, kernel, tasks, static_regs, failed>>
cacheVars == <<cache_entries, max_entries, now, cache_op, insert_deadline, last_insert>>
matchVars == <<matcher_zones, match_call>>
dnsVars == <<config, requests, answered, fanout>>
reloadVars == <<config_zones, reload, passes, installer_ok>>
resolverVars == <<cacheVars, matchVars, dnsVars, reloadVars, ttl_call>>
vars == <<prefix_len, installed, known_ips, last_call, actions,
          zone_routes, kernel, tasks, calls, static_regs, failed,
          cache_entries, max_entries, now, cache_op, insert_deadline, last_insert,
          matcher_zones, match_call, config, requests, answered, fanout,
          config_zones, reload, passes, installer_ok, ttl_call>>

\* ----------------------------------------------------------------- helpers

EmptyMap == [x \in {} |-> x]

MapInsert(m, k, v) == [x \in DOMAIN m \cup {k} |-> IF x = k THEN v ELSE m[x]]

MapRemove(m, k) == [x \in DOMAIN m \ {k} |-> m[x]]

MapRetain(m, keep(_)) == [x \in {y \in DOMAIN m : keep(m[y])} |-> m[x]]

SetMax(S) == CHOOSE x \in S : \A y \in S : y <= x

\* All orders in which a HashMap iteration may yield the elements of S.
RECURSIVE Orders(_)
Orders(S) ==
    IF S = {} THEN { <<>> }
    ELSE UNION { { <<x>> \o rest : rest \in Orders(S \ {x}) } : x \in S }

\* net | (1 << k)
OrBit(net, k) == IF (net \div (2 ^ k)) % 2 = 1 THEN net ELSE net + 2 ^ k

\* ------------------------------------------------- aggregator: pure helpers

\* fn network_address(ip, prefix_len)
network_address(ip, p) ==
    IF p = 0 THEN 0 ELSE ip - (ip % (2 ^ (AddrBits - p)))

\* split_network shifting by the parent's prefix length instead of the child's.
split_network_parent_shift(net, p) == <<net, OrBit(net, AddrBits - p)>>

\* fn split_network(net, prefix_len) -> (left, right)
split_network(net, p) == <<net, OrBit(net, AddrBits - (p + 1))>>

\* fn ip_in_network(ip, network, prefix_len)
ip_in_network(ip, network, p) == network_address(ip, p) = network

RouteOwner(zone_name, route_type, route_target) ==
    [zone_name |-> zone_name, route_type |-> route_type, route_target |-> route_target]

ActionAdd(network, p, route_type, route_target) ==
    [kind |-> "Add", network |-> network, prefix_len |-> p,
     route_type |-> route_type, route_target |-> route_target]

ActionRemove(network, p) ==
    [kind |-> "Remove", network |-> network, prefix_len |-> p]

\* find_covering_route walking `0..32` instead of `0..=32`: a /32 is never found.
find_covering_route_exclusive(inst, ip) ==
    LET hits == { p \in 0..(AddrBits - 1) : <<network_address(ip, p), p>> \in DOMAIN inst }
    IN  IF hits = {} THEN [found |-> FALSE]
        ELSE LET p == SetMax(hits)
                 key == <<network_address(ip, p), p>>
             IN  [found |-> TRUE, key |-> key, owner |-> inst[key]]

\* RouteAggregator::find_covering_route: prefixes from most to least specific.
find_covering_route(inst, ip) ==
    LET hits == { p \in 0..AddrBits : <<network_address(ip, p), p>> \in DOMAIN inst }
    IN  IF hits = {} THEN [found |-> FALSE]
        ELSE LET p == SetMax(hits)
                 key == <<network_address(ip, p), p>>
             IN  [found |-> TRUE, key |-> key, owner |-> inst[key]]

\* The bisection loop `while cur_prefix < 32` of process_ip: halve, install the
\* half that does not contain ip for `owner`, continue in the half that does.
RECURSIVE split_around(_, _, _, _, _, _)
split_around(inst, acts, cur_net, cur_prefix, ip, owner) ==
    IF cur_prefix >= AddrBits THEN [installed |-> inst, actions |-> acts]
    ELSE LET child_prefix == cur_prefix + 1
             lr == split_network(cur_net, cur_prefix)
             in_left == ip_in_network(ip, lr[1], child_prefix)
             contains_ip == IF in_left THEN lr[1] ELSE lr[2]
             sibling == IF in_left THEN lr[2] ELSE lr[1]
         IN  split_around(
                 MapInsert(inst, <<sibling, child_prefix>>, owner),
                 Append(acts, ActionAdd(sibling, child_prefix,
                                        owner.route_type, owner.route_target)),
                 contains_ip, child_prefix, ip, owner)

\* The known IPs of other zones inside the aggregate (`conflicts`).
conflict_set(known, zone_name, agg_net, p) ==
    { k \in DOMAIN known : known[k] # zone_name /\ ip_in_network(k, agg_net, p) }

\* `for (conflict_ip, _) in &conflicts`: carve the covering route around each.
RECURSIVE carve_conflicts(_, _, _, _)
carve_conflicts(inst, acts, order, zone_name) ==
    IF order = <<>> THEN [installed |-> inst, actions |-> acts]
    ELSE LET k == Head(order)
             cov == find_covering_route(inst, k)
         IN  IF cov.found /\ cov.owner.zone_name = zone_name
             THEN LET r == split_around(
                              MapRemove(inst, cov.key),
                              Append(acts, ActionRemove(cov.key[1], cov.key[2])),
                              cov.key[1], cov.key[2], k, cov.owner)
                  IN  carve_conflicts(r.installed, r.actions, Tail(order), zone_name)
             ELSE carve_conflicts(inst, acts, Tail(order), zone_name)

\* The disabled branch without its `contains_key` check.
process_ip_disabled_unchecked(inst, known1, ip, owner) ==
    [installed |-> MapInsert(inst, <<ip, AddrBits>>, owner),
     known_ips |-> known1,
     actions |-> <<ActionAdd(ip, AddrBits, owner.route_type, owner.route_target)>>]

\* process_ip with aggregation disabled (prefix_len >= 32): always a /32.
process_ip_disabled(inst, known1, ip, owner) ==
    IF <<ip, AddrBits>> \in DOMAIN inst
    THEN [installed |-> inst, known_ips |-> known1, actions |-> <<>>]
    ELSE [installed |-> MapInsert(inst, <<ip, AddrBits>>, owner),
          known_ips |-> known1,
          actions |-> <<ActionAdd(ip, AddrBits, owner.route_type, owner.route_target)>>]

\* process_ip when the route `cov` covers ip: a no-op for the same zone, else
\* the aggregate is split around ip and ip gets a /32 of its own.
process_ip_hit(inst, known1, ip, owner, cov) ==
    IF cov.owner.zone_name = owner.zone_name
    THEN [installed |-> inst, known_ips |-> known1, actions |-> <<>>]
    ELSE LET r == split_around(
                     MapRemove(inst, cov.key),
                     <<ActionRemove(cov.key[1], cov.key[2])>>,
                     cov.key[1], cov.key[2], ip, cov.owner)
         IN  [installed |-> MapInsert(r.installed, <<ip, AddrBits>>, owner),
              known_ips |-> known1,
              actions |-> Append(r.actions,
                            ActionAdd(ip, AddrBits, owner.route_type, owner.route_target))]

\* process_ip when no route covers ip: install the aggregate, then carve it
\* around the conflicts, which the HashMap yields in the order `order`.
process_ip_miss(p, inst, known1, ip, owner, order) ==
    LET agg_net == network_address(ip, p)
        r == carve_conflicts(
                 MapInsert(inst, <<agg_net, p>>, owner),
                 <<ActionAdd(agg_net, p, owner.route_type, owner.route_target)>>,
                 order, owner.zone_name)
    IN  [installed |-> r.installed, known_ips |-> known1, actions |-> r.actions]

\* RouteAggregator::process_ip on the state (inst, known) with prefix p.
process_ip(p, inst, known, ip, zone_name, route_type, route_target, order) ==
    LET known1 == MapInsert(known, ip, zone_name)
        owner == RouteOwner(zone_name, route_type, route_target)
        cov == find_covering_route(inst, ip)
    IN  IF p >= AddrBits THEN process_ip_disabled(inst, known1, ip, owner)
        ELSE IF cov.found THEN process_ip_hit(inst, known1, ip, owner, cov)
        ELSE process_ip_miss(p, inst, known1, ip, owner, order)

\* The iteration orders process_ip may see for its conflicts.
conflict_orders(p, known, ip, zone_name) ==
    Orders(conflict_set(MapInsert(known, ip, zone_name), zone_name,
                        network_address(ip, p), p))

\* RouteAggregator::register_static_ip
register_static_ip(known, ip, zone_name) == MapInsert(known, ip, zone_name)

\* RouteAggregator::cleanup_zone, the `installed` map
cleanup_zone_installed(inst, zone_name) ==
    LET keep(owner) == owner.zone_name # zone_name IN MapRetain(inst, keep)

\* cleanup_zone forgetting to purge known_ips.
cleanup_zone_known_kept(known, zone_name) == known

\* RouteAggregator::cleanup_zone, the `known_ips` map
cleanup_zone_known(known, zone_name) ==
    LET keep(zone) == zone # zone_name IN MapRetain(known, keep)

\* -------------------------------------------------------------------- Init

\* RouteAggregator::new / RouteManager::new
Init ==
    /\ \E opt \in PrefixOptions :
          prefix_len = IF opt = <<>> THEN AddrBits ELSE opt[1]
    /\ installed = EmptyMap
    /\ known_ips = EmptyMap
    /\ last_call = [op |-> "new"]
    /\ actions = <<>>
    /\ zone_routes = EmptyMap
    /\ kernel = EmptyMap
    /\ tasks = {}
    /\ calls = 0
    /\ static_regs = {}
    /\ failed = FALSE
    /\ cache_entries = EmptyMap
    /\ max_entries = 0
    /\ now = 0
    /\ cache_op = [op |-> "new"]
    /\ insert_deadline = EmptyMap
    /\ last_insert = EmptyMap
    /\ matcher_zones = <<>>
    /\ match_call = [op |-> "new"]
    /\ config = ServerConfig("Fallback", 0)
    /\ requests = {}
    /\ answered = [id |-> 0]
    /\ fanout = {}
    /\ config_zones = <<>>
    /\ reload = ReloadIdle
    /\ passes = {}
    /\ installer_ok = TRUE
    /\ ttl_call = [op |-> "new"]

\* ------------------------------------------------ aggregator: its operations

AggProcessIp(ip, zone) ==
    /\ calls < MaxAggCalls
    /\ calls' = calls + 1
    /\ \E order \in conflict_orders(prefix_len, known_ips, ip, zone.name) :
        LET r == process_ip(prefix_len, installed, known_ips, ip,
                            zone.name, zone.route_type, zone.route_target, order)
        IN  /\ installed' = r.installed
            /\ known_ips' = r.known_ips
            /\ actions' = r.actions
            /\ last_call' = [op |-> "process_ip", ip |-> ip, zone |-> zone.name]
            /\ UNCHANGED <<prefix_len, mgrVars, resolverVars>>

AggRegisterStaticIp(ip, zone) ==
    /\ calls < MaxAggCalls
    /\ calls' = calls + 1
    /\ known_ips' = register_static_ip(known_ips, ip, zone.name)
    /\ last_call' = [op |-> "register_static_ip", ip |-> ip, zone |-> zone.name]
    /\ UNCHANGED <<prefix_len, installed, actions, mgrVars, resolverVars>>

AggCleanupZone(zone_name) ==
    /\ calls < MaxAggCalls
    /\ calls' = calls + 1
    /\ installed' = cleanup_zone_installed(installed, zone_name)
    /\ known_ips' = cleanup_zone_known(known_ips, zone_name)
    /\ last_call' = [op |-> "cleanup_zone", zone |-> zone_name]
    /\ UNCHANGED <<prefix_len, actions, mgrVars, resolverVars>>

NextAgg ==
    \/ \E ip \in IPs, zone \in Zones : AggProcessIp(ip, zone)
    \/ \E ip \in IPs, zone \in Zones : AggRegisterStaticIp(ip, zone)
    \/ \E zone_name \in ZoneNames : AggCleanupZone(zone_name)

SpecAgg == Init /\ [][NextAgg]_vars

\* ----------------------------------------------- route manager and installer

\* RouteManager::read_device_file: the trimmed content of a zone's device file.
read_device_file(path) == IF path = "/run/z2.dev" THEN "tun2" ELSE ""

\* What the kernel holds for a route added by add_via_route / add_dev_route.
KernelTarget(route_type, route_target) ==
    IF route_type = "Via" THEN <<"Via", route_target>>
    ELSE <<"Dev", read_device_file(route_target)>>

\* RouteAdder::add_via_route / add_dev_route succeeding: a new route is added;
\* EEXIST ("route already exists") is a success that leaves the table as it is.
installer_add(k, network, p, route_type, route_target) ==
    IF <<network, p>> \in DOMAIN k THEN k
    ELSE MapInsert(k, <<network, p>>, KernelTarget(route_type, route_target))

\* RouteAdder::remove_route succeeding: ESRCH ("no such route") is a success.
installer_remove(k, network, p) == MapRemove(k, <<network, p>>)

\* RouteManager::execute_action, the installer call succeeding.
execute_action(k, action) ==
    IF action.kind = "Add"
    THEN installer_add(k, action.network, action.prefix_len,
                       action.route_type, action.route_target)
    ELSE installer_remove(k, action.network, action.prefix_len)

\* `routes.entry(zone).or_default().insert(ip)`
zone_routes_insert(zr, zone_name, ip) ==
    MapInsert(zr, zone_name,
              (IF zone_name \in DOMAIN zr THEN zr[zone_name] ELSE {}) \cup {ip})

TaskIds == 1..(MaxCalls + MaxRaceCalls)

FreshTask ==
    CHOOSE t \in TaskIds : (\A x \in tasks : x.id # t) /\ (\A f \in fanout : f.cur # t)

\* RouteManager::add_route_v4, up to the release of the aggregator mutex:
\* process_ip runs under the lock; an empty action list returns at once.
AddRouteLocked(ip, zone) ==
    /\ \E order \in conflict_orders(prefix_len, known_ips, ip, zone.name) :
        LET r == process_ip(prefix_len, installed, known_ips, ip,
                            zone.name, zone.route_type, zone.route_target, order)
        IN  /\ installed' = r.installed
            /\ known_ips' = r.known_ips
            /\ actions' = r.actions
            /\ last_call' = [op |-> "process_ip", ip |-> ip, zone |-> zone.name]
            /\ tasks' = IF r.actions = <<>> THEN tasks
                        ELSE tasks \cup { [id |-> FreshTask, zone |-> zone.name,
                                           ip |-> ip, pending |-> r.actions] }
    /\ UNCHANGED <<prefix_len, zone_routes, kernel, static_regs, failed>>

\* An add_route call made directly on the route manager.
AddRouteStart(ip, zone) ==
    /\ AddRouteLocked(ip, zone)
    /\ calls' = calls + 1
    /\ UNCHANGED resolverVars

\* `self.execute_action(action).await?` of a call in flight, the installer
\* call succeeding.
ExecuteAction(t) ==
    /\ t.pending # <<>>
    /\ kernel' = execute_action(kernel, Head(t.pending))
    /\ tasks' = (tasks \ {t}) \cup { [t EXCEPT !.pending = Tail(t.pending)] }
    /\ UNCHANGED <<aggVars, calls, zone_routes, static_regs, failed, resolverVars>>

\* The installer call (or the device-file read before it) returning an error:
\* `?` ends the call, the rest of its actions is never executed and the
\* per-zone set is not updated.
InstallerFails(t) ==
    /\ t.pending # <<>>
    /\ tasks' = tasks \ {t}
    /\ UNCHANGED <<aggVars, zone_routes, kernel, static_regs>>

\* The same, for a call made directly on the route manager.
ExecuteActionFails(t) ==
    /\ InstallerFails(t)
    /\ failed' = TRUE
    /\ UNCHANGED <<calls, resolverVars>>

\* Every action executed: record the address in the per-zone set and return.
RouteRecorded_unchecked(t) ==
    /\ zone_routes' = zone_routes_insert(zone_routes, t.zone, t.ip)
    /\ tasks' = tasks \ {t}
    /\ UNCHANGED <<aggVars, calls, kernel, static_regs, failed>>

RouteRecorded(t) ==
    /\ t.pending = <<>>
    /\ zone_routes' = zone_routes_insert(zone_routes, t.zone, t.ip)
    /\ tasks' = tasks \ {t}
    /\ UNCHANGED <<aggVars, calls, kernel, static_regs, failed>>

\* The same, for a call made directly on the route manager.
AddRouteFinish(t) ==
    /\ RouteRecorded(t)
    /\ UNCHANGED resolverVars

\* RouteManager::add_static_route, up to the release of the aggregator mutex:
\* parse_cidr gave (ip, p); the address is registered with the aggregator. The
\* installer call with the configured prefix length and the update of the
\* per-zone set follow as for add_route.
AddStaticRouteStart(cidr, zone) ==
    /\ calls' = calls + 1
    /\ known_ips' = register_static_ip(known_ips, cidr[1], zone.name)
    /\ last_call' = [op |-> "register_static_ip", ip |-> cidr[1], zone |-> zone.name]
    /\ static_regs' = static_regs \cup
            { [ip |-> cidr[1], prefix_len |-> cidr[2], zone |-> zone.name] }
    /\ tasks' = tasks \cup
            { [id |-> FreshTask, zone |-> zone.name, ip |-> cidr[1],
               pending |-> <<ActionAdd(cidr[1], cidr[2],
                                       zone.route_type, zone.route_target)>>] }
    /\ UNCHANGED <<prefix_len, installed, actions, zone_routes, kernel, failed, resolverVars>>

\* RouteManager::cleanup_zone: under the write lock of zone_routes, remove the
\* zone's set, then clean the aggregator under its mutex. No installer call.
\* (The write lock is held to the end and nothing else the manager does needs
\* both locks, so the two steps act as one.)
CleanupZoneTracking(zone_name) ==
    /\ zone_routes' = MapRemove(zone_routes, zone_name)
    /\ installed' = cleanup_zone_installed(installed, zone_name)
    /\ known_ips' = cleanup_zone_known(known_ips, zone_name)
    /\ last_call' = [op |-> "cleanup_zone", zone |-> zone_name]
    /\ UNCHANGED <<prefix_len, actions, kernel, tasks, static_regs, failed>>

\* A cleanup_zone call made directly on the route manager.
CleanupZone(zone_name) ==
    /\ CleanupZoneTracking(zone_name)
    /\ calls' = calls + 1
    /\ UNCHANGED resolverVars

\* The installer steps of the calls in flight.
InstallerStep ==
    \/ \E t \in tasks : ExecuteAction(t)
    \/ \E t \in tasks : ExecuteActionFails(t)
    \/ \E t \in tasks : AddRouteFinish(t)

NextRace ==
    \/ \E ip \in IPs, zone \in Zones : calls < MaxRaceCalls /\ AddRouteStart(ip, zone)
    \/ InstallerStep

NextMgr ==
    \/ \E ip \in IPs, zone \in Zones : calls < MaxCalls /\ AddRouteStart(ip, zone)
    \/ \E cidr \in StaticCidrs, zone \in Zones :
          calls < MaxCalls /\ AddStaticRouteStart(cidr, zone)
    \/ \E zone_name \in ZoneNames : calls < MaxCalls /\ CleanupZone(zone_name)
    \/ InstallerStep

\* Only add_route calls, racing.
SpecRace == Init /\ [][NextRace]_vars

\* The route manager: add_route, add_static_route and cleanup_zone calls.
SpecMgr == Init /\ [][NextMgr]_vars

\* =============================================================== DNS cache

\* ---------------------------------------------------------- bounds, inputs

\* The clock runs from 0 to MaxTime (seconds).
MaxTime == 2

\* Number of insert and clear calls one behaviour of SpecCache makes.
MaxCacheOps == 2

\* Query names are sequences of characters.
QNames == { <<"a">>, <<"A">>, <<"b">> }

\* RecordType
QTypes == { "A", "AAAA" }

\* The (qname, qtype) pairs the cache is called with.
CacheQueries ==
    { << <<"a">>, "A" >>, << <<"A">>, "A" >>, << <<"a">>, "AAAA" >>, << <<"b">>, "A" >> }

\* Time-to-live values handed to insert, in seconds.
Ttls == { 1, 2 }

\* DnsCache::new(max_entries)
CacheSizes == { 0, 1, 2 }

\* hickory Message, the fields the resolver reads: the header's id and
\* response code and the answer records (address, ttl).
Message(id, rcode, answers) == [id |-> id, rcode |-> rcode, answers |-> answers]

CacheMessages ==
    { Message(1, "NoError", << [ip |-> 0, ttl |-> 1] >>),
      Message(2, "NXDomain", <<>>) }

\* char::to_lowercase on the letters used here.
lower_char(c) ==
    CASE c = "A" -> "a"
      [] c = "B" -> "b"
      [] c = "C" -> "c"
      [] OTHER -> c

\* str::to_lowercase
to_lowercase(s) == [i \in DOMAIN s |-> lower_char(s[i])]

\* CacheKey { qname: qname.to_lowercase(), qtype }
CacheKey(qname, qtype) == << to_lowercase(qname), qtype >>

\* `entry.inserted_at.elapsed() < entry.ttl`
entry_live_inclusive(entry, t) == t - entry.inserted_at <= entry.ttl
entry_live(entry, t) == t - entry.inserted_at < entry.ttl

\* DnsCache::is_enabled
is_enabled(max) == max > 0

\* DnsCache::lookup: the response of a live entry; a stale entry is removed.
cache_lookup(entries, qname, qtype, t) ==
    LET key == CacheKey(qname, qtype)
    IN  IF key \in DOMAIN entries
        THEN IF entry_live(entries[key], t)
             THEN [entries |-> entries, result |-> << entries[key].message >>]
             ELSE [entries |-> MapRemove(entries, key), result |-> <<>>]
        ELSE [entries |-> entries, result |-> <<>>]

\* `entries.retain(|_, entry| entry.inserted_at.elapsed() < entry.ttl)`
sweep_expired(entries, t) ==
    [k \in { j \in DOMAIN entries : entry_live(entries[j], t) } |-> entries[k]]

\* DnsCache::insert
cache_insert_evicting(max, entries, qname, qtype, message, ttl, t) ==
    MapInsert(entries, CacheKey(qname, qtype),
              [message |-> message, inserted_at |-> t, ttl |-> ttl])
cache_insert(max, entries, qname, qtype, message, ttl, t) ==
    IF ~is_enabled(max) THEN entries
    ELSE
      LET key == CacheKey(qname, qtype)
          swept == IF Cardinality(DOMAIN entries) >= max /\ key \notin DOMAIN entries
                   THEN sweep_expired(entries, t)
                   ELSE entries
      IN  IF Cardinality(DOMAIN swept) >= max /\ key \notin DOMAIN swept
          THEN swept
          ELSE MapInsert(swept, key,
                         [message |-> message, inserted_at |-> t, ttl |-> ttl])

\* DnsCache::clear
cache_clear_kept(entries) == entries
cache_clear(entries) == EmptyMap

\* The bookkeeping of insert calls that the claims about the cache refer to:
\* per key, the latest time at which the ttl of some insert call made so far
\* runs out, and the most recent call with whether the cache had room for it
\* (the key was present, or fewer than max entries were within their ttl).
note_insert(max, entries, qname, qtype, message, ttl, t) ==
    LET key == CacheKey(qname, qtype)
        before == IF key \in DOMAIN insert_deadline THEN insert_deadline[key] ELSE 0
    IN  [ever |-> MapInsert(insert_deadline, key,
                            IF t + ttl > before THEN t + ttl ELSE before),
         last |-> MapInsert(last_insert, key,
                            [qname |-> qname, at |-> t, ttl |-> ttl, message |-> message,
                             room |-> (\/ key \in DOMAIN entries
                                       \/ Cardinality({ k \in DOMAIN entries :
                                               t - entries[k].inserted_at < entries[k].ttl })
                                            < max)])]

\* ------------------------------------------------------ cache: operations

InitCache ==
    /\ prefix_len = AddrBits
    /\ installed = EmptyMap
    /\ known_ips = EmptyMap
    /\ last_call = [op |-> "new"]
    /\ actions = <<>>
    /\ zone_routes = EmptyMap
    /\ kernel = EmptyMap
    /\ tasks = {}
    /\ calls = 0
    /\ static_regs = {}
    /\ failed = FALSE
    /\ cache_entries = EmptyMap
    /\ max_entries \in CacheSizes
    /\ now = 0
    /\ cache_op = [op |-> "new"]
    /\ insert_deadline = EmptyMap
    /\ last_insert = EmptyMap
    /\ matcher_zones = <<>>
    /\ match_call = [op |-> "new"]
    /\ config = ServerConfig("Fallback", 0)
    /\ requests = {}
    /\ answered = [id |-> 0]
    /\ fanout = {}
    /\ config_zones = <<>>
    /\ reload = ReloadIdle
    /\ passes = {}
    /\ installer_ok = TRUE
    /\ ttl_call = [op |-> "new"]

CacheLookup(qname, qtype) ==
    LET r == cache_lookup(cache_entries, qname, qtype, now)
    IN  /\ cache_entries' = r.entries
        /\ cache_op' = [op |-> "lookup", qname |-> qname, qtype |-> qtype,
                        at |-> now, result |-> r.result]
        /\ UNCHANGED <<max_entries, now, insert_deadline, last_insert, calls,
                       aggVars, mgrVars, matchVars, reloadVars, ttl_call, dnsVars>>

CacheInsert(qname, qtype, message, ttl) ==
    LET n == note_insert(max_entries, cache_entries, qname, qtype, message, ttl, now)
    IN  /\ calls < MaxCacheOps
        /\ calls' = calls + 1
        /\ cache_entries' =
              cache_insert(max_entries, cache_entries, qname, qtype, message, ttl, now)
        /\ insert_deadline' = n.ever
        /\ last_insert' = n.last
        /\ cache_op' = [op |-> "insert", key |-> CacheKey(qname, qtype)]
        /\ UNCHANGED <<max_entries, now, aggVars, mgrVars, matchVars, reloadVars, ttl_call, dnsVars>>

CacheClear ==
    /\ calls < MaxCacheOps
    /\ calls' = calls + 1
    /\ cache_entries' = cache_clear(cache_entries)
    /\ last_insert' = EmptyMap
    /\ cache_op' = [op |-> "clear"]
    /\ UNCHANGED <<max_entries, now, insert_deadline, aggVars, mgrVars, matchVars, reloadVars, ttl_call, dnsVars>>

\* Time passes.
Tick ==
    /\ now' = now + 1
    /\ UNCHANGED <<cache_entries, max_entries, cache_op, insert_deadline, last_insert,
                   calls, aggVars, mgrVars, matchVars, reloadVars, ttl_call, dnsVars>>

NextCache ==
    \/ \E q \in CacheQueries : CacheLookup(q[1], q[2])
    \/ \E q \in CacheQueries, message \in CacheMessages, ttl \in Ttls :
          CacheInsert(q[1], q[2], message, ttl)
    \/ CacheClear
    \/ now < MaxTime /\ Tick

SpecCache == InitCache /\ [][NextCache]_vars

\* ============================================================ zone matcher

\* Number of zones in the configured zone list.
MaxZones == 2

\* Query names handed to find_zone: "a.c", "b.a.c", "a.c.", "A.c", "ba.c",
\* "c", "a.c.b", "b" and the root ".".
MatchNames ==
    { <<"a", ".", "c">>, <<"b", ".", "a", ".", "c">>, <<"a", ".", "c", ".">>,
      <<"A", ".", "c">>, <<"b", "a", ".", "c">>, <<"c">>,
      <<"a", ".", "c", ".", "b">>, <<"b">>, <<".">> }

\* config::ZoneConfig, the fields the matcher reads (with the route fields).
MatchZone(name, mode, domains, patterns) ==
    [name |-> name, mode |-> mode, domains |-> domains, patterns |-> patterns,
     route_type |-> "Via", route_target |-> "gw1"]

\* The zones a configuration is made of.
ZonePool ==
    { MatchZone("corp", "Inclusive", << <<"a", ".", "c">> >>, <<>>),
      MatchZone("api", "Inclusive", << <<"b", ".", "a", ".", "c">> >>, <<>>),
      MatchZone("sub", "Inclusive", <<>>, << <<"b">> >>),
      MatchZone("glob", "Inclusive", <<>>, << <<"*", ".", "c">> >>),
      MatchZone("vpn", "Exclusive", << <<"c">> >>, <<>>),
      MatchZone("all", "Exclusive", <<>>, <<>>) }

\* The ordered zone lists of at most n distinct zones.
RECURSIVE ZoneListsUpTo(_)
ZoneListsUpTo(n) ==
    IF n = 0 THEN { <<>> }
    ELSE LET shorter == ZoneListsUpTo(n - 1)
         IN  shorter \cup
             { Append(l, z) : l \in { x \in shorter : Len(x) = n - 1 }, z \in ZonePool }

ZoneLists ==
    { l \in ZoneListsUpTo(MaxZones) : \A i, j \in DOMAIN l : i # j => l[i] # l[j] }

\* str::trim_end_matches('.'): every trailing dot is removed.
RECURSIVE trim_end_matches_dot(_)
trim_end_matches_dot(s) ==
    IF s # <<>> /\ s[Len(s)] = "."
    THEN trim_end_matches_dot(SubSeq(s, 1, Len(s) - 1))
    ELSE s

\* Whether s ends with t.
ends_with(s, t) ==
    Len(s) >= Len(t) /\ SubSeq(s, Len(s) - Len(t) + 1, Len(s)) = t

\* DomainMatcher::matches: `^domain$` or `^.*\.domain$` (the domain escaped).
domain_matches_any_suffix(domain, qname) == ends_with(qname, domain)
domain_matches(domain, qname) ==
    qname = domain \/ ends_with(qname, <<".">> \o domain)

\* A glob compiled by compile_pattern, `^seg.*seg...$`: each `*` stands for
\* any run of characters, every other character for itself.
RECURSIVE glob_is_match(_, _)
glob_is_match(pattern, s) ==
    IF pattern = <<>> THEN s = <<>>
    ELSE IF Head(pattern) = "*"
         THEN \E i \in 0..Len(s) : glob_is_match(Tail(pattern), SubSeq(s, i + 1, Len(s)))
         ELSE s # <<>> /\ Head(s) = Head(pattern) /\ glob_is_match(Tail(pattern), Tail(s))

\* compile_pattern and Regex::is_match: a pattern holding `*` is a glob over
\* the whole name, any other pattern matches as a substring (`.*pattern.*`).
pattern_is_match(pattern, s) ==
    IF \E i \in DOMAIN pattern : pattern[i] = "*"
    THEN glob_is_match(pattern, s)
    ELSE \E i \in 0..(Len(s) - Len(pattern)) : SubSeq(s, i + 1, i + Len(pattern)) = pattern

\* ZoneMatcher::matches_zone
matches_zone(zone, qname) ==
    \/ \E i \in DOMAIN zone.domains : domain_matches(zone.domains[i], qname)
    \/ \E i \in DOMAIN zone.patterns : pattern_is_match(zone.patterns[i], qname)

\* The loop of find_zone over the zones that remain, the name normalized.
RECURSIVE find_zone_loop(_, _)
find_zone_loop(zones, qname) ==
    IF zones = <<>> THEN <<>>
    ELSE LET any_match == matches_zone(Head(zones), qname)
         IN  IF Head(zones).mode = "Inclusive"
             THEN IF any_match THEN << Head(zones) >>
                  ELSE find_zone_loop(Tail(zones), qname)
             ELSE IF ~any_match THEN << Head(zones) >>
                  ELSE find_zone_loop(Tail(zones), qname)

\* ZoneMatcher::find_zone: None is <<>>, Some(zone) is <<zone>>.
find_zone_last(zones, qname) ==
    find_zone_loop([i \in 1..Len(zones) |-> zones[Len(zones) + 1 - i]],
                   trim_end_matches_dot(qname))
find_zone(zones, qname) == find_zone_loop(zones, trim_end_matches_dot(qname))

\* -------------------------------------------------- the matcher: operations

\* ZoneMatcher::new over a configured zone list.
InitMatch ==
    /\ prefix_len = AddrBits
    /\ installed = EmptyMap
    /\ known_ips = EmptyMap
    /\ last_call = [op |-> "new"]
    /\ actions = <<>>
    /\ zone_routes = EmptyMap
    /\ kernel = EmptyMap
    /\ tasks = {}
    /\ calls = 0
    /\ static_regs = {}
    /\ failed = FALSE
    /\ cache_entries = EmptyMap
    /\ max_entries = 0
    /\ now = 0
    /\ cache_op = [op |-> "new"]
    /\ insert_deadline = EmptyMap
    /\ last_insert = EmptyMap
    /\ matcher_zones \in ZoneLists
    /\ match_call = [op |-> "new"]
    /\ config = ServerConfig("Fallback", 0)
    /\ requests = {}
    /\ answered = [id |-> 0]
    /\ fanout = {}
    /\ config_zones = <<>>
    /\ reload = ReloadIdle
    /\ passes = {}
    /\ installer_ok = TRUE
    /\ ttl_call = [op |-> "new"]

FindZone(qname) ==
    /\ match_call' = [op |-> "find_zone", qname |-> qname,
                      result |-> find_zone(matcher_zones, qname)]
    /\ UNCHANGED <<matcher_zones, aggVars, mgrVars, calls, cacheVars, dnsVars, reloadVars, ttl_call>>

NextMatch == \E qname \in MatchNames : FindZone(qname)

SpecMatch == InitMatch /\ [][NextMatch]_vars

\* ========================================================= request handler

\* Number of queries one behaviour of SpecDns receives.
MaxQueries == 2

\* config::DnsServerConfig: an upstream of a zone, without TTL overrides.
DnsServer(address) ==
    [address |-> address, cache_min_ttl |-> <<>>, cache_max_ttl |-> <<>>,
     cache_negative_ttl |-> <<>>]

\* config::ZoneConfig of the zone the handler is configured with: names under
\* "a.c" go to the two upstreams of the zone and get routes via gw1.
CorpZone ==
    [name |-> "corp", mode |-> "Inclusive",
     domains |-> << <<"a", ".", "c">> >>, patterns |-> <<>>,
     route_type |-> "Via", route_target |-> "gw1",
     dns_servers |-> << DnsServer("u1"), DnsServer("u2") >>,
     dns_protocol |-> "Udp", static_routes |-> <<>>,
     cache_min_ttl |-> <<>>, cache_max_ttl |-> <<>>, cache_negative_ttl |-> <<>>]

DnsConfigs ==
    { ServerConfig("Fallback", 0), ServerConfig("Fallback", 1), ServerConfig("Servfail", 1) }

\* The names queried: one of the zone, one of no zone.
DnsNames == { <<"a", ".", "c">>, <<"b">> }

\* What an upstream that answers sends back, the id aside.
UpstreamReplies ==
    { [rcode |-> "NoError", answers |-> << [ip |-> 0, ttl |-> 2] >>],
      [rcode |-> "NXDomain", answers |-> <<>>],
      [rcode |-> "ServFail", answers |-> <<>>] }

\* Sequence helpers.
RECURSIVE SeqMin(_)
SeqMin(s) ==
    IF Len(s) = 1 THEN s[1]
    ELSE LET m == SeqMin(Tail(s)) IN IF s[1] < m THEN s[1] ELSE m

\* Option::or / unwrap_or over the server, zone and global settings.
cascade_zone_first(server_cfg, zone, field, global_value) ==
    IF zone # <<>> /\ zone[1][field] # <<>> THEN zone[1][field][1]
    ELSE IF server_cfg # <<>> /\ server_cfg[1][field] # <<>> THEN server_cfg[1][field][1]
    ELSE global_value

cascade(server_cfg, zone, field, global_value) ==
    IF server_cfg # <<>> /\ server_cfg[1][field] # <<>> THEN server_cfg[1][field][1]
    ELSE IF zone # <<>> /\ zone[1][field] # <<>> THEN zone[1][field][1]
    ELSE global_value

\* u64::clamp(min, max): `assert!(min <= max)` panics when min > max (the
\* call never returns: <<>>); otherwise the value brought into [min, max].
clamp(v, lo, hi) ==
    IF lo > hi THEN <<>>
    ELSE << IF v < lo THEN lo ELSE IF v > hi THEN hi ELSE v >>

\* resolve_cache_ttl: the Duration in seconds, <<ttl>>, or <<>> when clamp
\* panics.
resolve_cache_ttl(server_cfg, zone, global, message) ==
    LET min_ttl == cascade(server_cfg, zone, "cache_min_ttl", global.cache_min_ttl)
        max_ttl == cascade(server_cfg, zone, "cache_max_ttl", global.cache_max_ttl)
        negative_ttl ==
            cascade(server_cfg, zone, "cache_negative_ttl", global.cache_negative_ttl)
    IN  IF message.rcode = "NXDomain" \/ message.answers = <<>>
        THEN << negative_ttl >>
        ELSE clamp(SeqMin([i \in DOMAIN message.answers |-> message.answers[i].ttl]),
                   min_ttl, max_ttl)

\* handle_request: the protocol of the upstream attempts of a query.
protocol_for_zone(zone) == IF zone # <<>> THEN zone[1].dns_protocol ELSE "Udp"

protocol_for(zone) ==
    IF zone # <<>> /\ zone[1].dns_servers # <<>> THEN zone[1].dns_protocol ELSE "Udp"

\* handle_request: the upstream list of a query, each upstream with its
\* server settings (None for a default upstream).
upstreams_for(zone, global) ==
    IF zone # <<>> /\ zone[1].dns_servers # <<>>
    THEN [i \in DOMAIN zone[1].dns_servers |->
            [address |-> zone[1].dns_servers[i].address,
             server_cfg |-> << zone[1].dns_servers[i] >>]]
    ELSE [i \in DOMAIN global.default_upstream |->
            [address |-> global.default_upstream[i], server_cfg |-> <<>>]]

\* A handle_request call: its query, where it stands, and what it has done.
NewRequest(id, qname, qtype) ==
    [id |-> id, qname |-> qname, qtype |-> qtype, pc |-> "forward",
     zone |-> <<>>, upstreams |-> <<>>, attempts |-> <<>>, last_err |-> "ServFail",
     result |-> <<>>, from_cache |-> FALSE, out |-> <<>>, response |-> <<>>,
     route_failed |-> FALSE]

\* What is kept of a call once it is answered.
Answered(id) == [NewRequest(id, <<>>, "A") EXCEPT !.pc = "done"]

\* The failover loop, one pass: the attempt is recorded; a response ends the
\* loop, an error is kept as last_err and the next upstream is tried, the
\* loop ending after the last one.
failover_step_no_break(r, res) ==
    LET u == r.upstreams[Len(r.attempts) + 1]
        tried == Append(r.attempts, [upstream |-> u.address, res |-> res])
        r1 == [r EXCEPT !.attempts = tried,
                        !.pc = IF Len(tried) = Len(r.upstreams) THEN "handle" ELSE "forward"]
    IN  IF res.ok
        THEN [r1 EXCEPT !.result = << [message |-> res.message, server_cfg |-> u.server_cfg] >>]
        ELSE [r1 EXCEPT !.last_err = res.rcode]

failover_step(r, res) ==
    LET u == r.upstreams[Len(r.attempts) + 1]
        tried == Append(r.attempts, [upstream |-> u.address, res |-> res])
    IN  IF res.ok
        THEN [r EXCEPT !.attempts = tried, !.pc = "handle",
                       !.result = << [message |-> res.message, server_cfg |-> u.server_cfg] >>]
        ELSE [r EXCEPT !.attempts = tried, !.last_err = res.rcode,
                       !.pc = IF Len(tried) = Len(r.upstreams) THEN "handle" ELSE "forward"]

\* `self.cache.is_enabled() && response.response_code() != ResponseCode::ServFail`
should_cache_any(enabled, message) == enabled
should_cache(enabled, message) == enabled /\ message.rcode # "ServFail"

\* The response built on a cache hit: the cached header with the id of the
\* current request, and the cached records.
cache_hit_response_stale_id(cached, request_id) == cached
cache_hit_response(cached, request_id) == [cached EXCEPT !.id = request_id]

\* The response built from an upstream response: its header and records as
\* they are; neither server.route_failure_mode nor the outcome of the route
\* task of the query enters it.
upstream_response_honoring_mode(message, route_failure_mode, route_failed) ==
    IF route_failure_mode = "Servfail" /\ route_failed
    THEN [message EXCEPT !.rcode = "ServFail", !.answers = <<>>]
    ELSE message
upstream_response(message, route_failure_mode, route_failed) == message

\* `builder.error_msg(request.header(), rcode)`
error_msg(request_id, rcode) == Message(request_id, rcode, <<>>)

\* add_routes_from_response: the route task spawned for a response (none when
\* no zone matches the name or the answers hold no address).
add_routes_from_response(zones, message, qname, id) ==
    LET zone == find_zone(zones, qname)
        ips == [i \in DOMAIN message.answers |-> message.answers[i].ip]
    IN  IF zone = <<>> \/ ips = <<>> THEN {}
        ELSE { [id |-> id, zone |-> zone[1], ips |-> ips, cur |-> 0] }

\* ReloadableHandler::handle_request, `self.handler.read().await`: the read
\* lock of the handler is granted unless the reload task holds the write lock
\* or waits for it (the lock is fair: a waiting writer goes first).
read_granted_always(task) == TRUE
read_granted(task) == task.pc = "idle"

\* ------------------------------------------------- the handler: operations

\* DnsHandler::new: the configuration, its matcher, an empty cache of the
\* configured size and a route manager without aggregation.
InitDns ==
    /\ prefix_len = AddrBits
    /\ installed = EmptyMap
    /\ known_ips = EmptyMap
    /\ last_call = [op |-> "new"]
    /\ actions = <<>>
    /\ zone_routes = EmptyMap
    /\ kernel = EmptyMap
    /\ tasks = {}
    /\ calls = 0
    /\ static_regs = {}
    /\ failed = FALSE
    /\ config \in DnsConfigs
    /\ cache_entries = EmptyMap
    /\ max_entries = config.cache_size
    /\ now = 0
    /\ cache_op = [op |-> "new"]
    /\ insert_deadline = EmptyMap
    /\ last_insert = EmptyMap
    /\ matcher_zones = << CorpZone >>
    /\ match_call = [op |-> "new"]
    /\ requests = {}
    /\ answered = [id |-> 0]
    /\ fanout = {}
    /\ config_zones = << CorpZone >>
    /\ reload = ReloadIdle
    /\ passes = {}
    /\ installer_ok = TRUE
    /\ ttl_call = [op |-> "new"]

\* handle_request with an op code other than Query: answered NotImp.
ReceiveOther ==
    LET id == Cardinality(requests) + 1
    IN  /\ Cardinality(requests) < MaxQueries
        /\ read_granted(reload)
        /\ requests' = requests \cup { Answered(id) }
        /\ answered' = [NewRequest(id, <<>>, "A") EXCEPT
                            !.pc = "done", !.response = << error_msg(id, "NotImp") >>]
        /\ UNCHANGED <<aggVars, mgrVars, calls, cacheVars, matchVars, reloadVars, ttl_call, config, fanout>>

\* handle_request, from the read lock of the handler (held until the call
\* returns) to the first upstream attempt: the cache
\* is looked up (a stale entry is removed); on a hit the route task for the
\* cached answers is spawned and the response is built from the cached
\* message; on a miss the zone and the upstream list are determined.
Receive(qname, qtype) ==
    LET id == Cardinality(requests) + 1
        r == NewRequest(id, qname, qtype)
        looked == IF is_enabled(max_entries)
                  THEN cache_lookup(cache_entries, qname, qtype, now)
                  ELSE [entries |-> cache_entries, result |-> <<>>]
        zone == find_zone(matcher_zones, qname)
    IN  /\ Cardinality(requests) < MaxQueries
        /\ read_granted(reload)
        /\ cache_entries' = looked.entries
        /\ IF looked.result # <<>>
           THEN /\ fanout' = fanout \cup
                       add_routes_from_response(matcher_zones, looked.result[1], qname, id)
                /\ requests' = requests \cup
                       { [r EXCEPT !.pc = "send", !.from_cache = TRUE,
                                   !.out = << cache_hit_response(looked.result[1], id) >>] }
           ELSE /\ fanout' = fanout
                /\ requests' = requests \cup
                       { [r EXCEPT !.zone = zone,
                                   !.upstreams = upstreams_for(zone, config)] }
        /\ UNCHANGED <<aggVars, mgrVars, calls, max_entries, now, cache_op,
                       insert_deadline, last_insert, matchVars, reloadVars, ttl_call, config, answered>>

\* forward_query / forward_query_tcp to the next upstream of the list answers
\* with a response carrying the id of the query. The loop ends and, with no
\* wait in between, the route task is spawned, the response is cached unless
\* it is ServFail, and the response to send is built. (A panic of
\* resolve_cache_ttl ends the task of the query: no response is sent.)
ForwardOk(r, reply) ==
    LET message == Message(r.id, reply.rcode, reply.answers)
        r1 == failover_step(r, [ok |-> TRUE, message |-> message])
        handled == r1.pc = "handle"
        ttl == resolve_cache_ttl(r1.result[1].server_cfg, r.zone, config,
                                 r1.result[1].message)
        caches == handled /\ should_cache(is_enabled(max_entries), r1.result[1].message)
        panics == caches /\ ttl = <<>>
    IN  /\ r.pc = "forward"
        /\ fanout' = IF handled
                     THEN fanout \cup add_routes_from_response(
                                          matcher_zones, r1.result[1].message, r.qname, r.id)
                     ELSE fanout
        /\ cache_entries' =
              IF caches /\ ~panics
              THEN cache_insert(max_entries, cache_entries, r.qname, r.qtype,
                                r1.result[1].message, ttl[1], now)
              ELSE cache_entries
        /\ requests' = (requests \ {r}) \cup
              { IF panics THEN [r1 EXCEPT !.pc = "panicked"]
                ELSE IF handled
                THEN [r1 EXCEPT !.pc = "send", !.out = << r1.result[1].message >>]
                ELSE r1 }
        /\ UNCHANGED <<aggVars, mgrVars, calls, max_entries, now, cache_op,
                       insert_deadline, last_insert, matchVars, reloadVars, ttl_call, config, answered>>

\* The attempt fails (bind, connect, send, receive, timeout, parse): every
\* such error is ResponseCode::ServFail. After the last upstream the loop
\* ends and the error response is built: from the last error when every
\* upstream failed.
ForwardErr(r) ==
    LET r1 == failover_step(r, [ok |-> FALSE, rcode |-> "ServFail"])
    IN  /\ r.pc = "forward"
        /\ requests' = (requests \ {r}) \cup
              { IF r1.pc = "handle"
                THEN [r1 EXCEPT !.pc = "send",
                                !.out = IF r1.result = <<>>
                                        THEN << error_msg(r.id, r1.last_err) >>
                                        ELSE << r1.result[1].message >>]
                ELSE r1 }
        /\ UNCHANGED <<aggVars, mgrVars, calls, cacheVars, matchVars, reloadVars, ttl_call, config,
                       answered, fanout>>

\* `response_handle.send_response(..)`: the client receives the response.
\* The route task of the query may have run, and failed, by now.
SendResponse(r) ==
    /\ r.pc = "send"
    /\ requests' = (requests \ {r}) \cup { Answered(r.id) }
    /\ answered' =
          [r EXCEPT !.pc = "done",
                    !.response =
                        IF r.from_cache \/ r.result = <<>> THEN r.out
                        ELSE << upstream_response(r.out[1], config.route_failure_mode,
                                                  r.route_failed) >>]
    /\ UNCHANGED <<aggVars, mgrVars, calls, cacheVars, matchVars, reloadVars, ttl_call, config, fanout>>

\* The route task with its next address taken, or finished.
fanout_next(f) ==
    IF Len(f.ips) = 1 THEN {} ELSE { [f EXCEPT !.cur = 0, !.ips = Tail(f.ips)] }

\* The spawned route task: `manager.add_route(ip, &zone_clone).await` for the
\* next address, up to the release of the aggregator mutex (add_route returns
\* at once when process_ip emits no action).
FanoutAddRoute(f) ==
    /\ f.cur = 0
    /\ AddRouteLocked(Head(f.ips), f.zone)
    /\ fanout' = (fanout \ {f}) \cup
          (IF tasks' = tasks THEN fanout_next(f) ELSE { [f EXCEPT !.cur = FreshTask] })
    /\ UNCHANGED <<calls, failed, cacheVars, matchVars, reloadVars, ttl_call, config, requests, answered>>

\* Every action executed: add_route records the address and returns Ok, and
\* the task goes on to the next address.
FanoutReturn(f) ==
    /\ \E t \in tasks : t.id = f.cur /\ RouteRecorded(t)
    /\ fanout' = (fanout \ {f}) \cup fanout_next(f)
    /\ UNCHANGED <<calls, failed, cacheVars, matchVars, reloadVars, ttl_call, config, requests, answered>>

\* add_route returned Err (an installer call or the device-file read failed):
\* the task logs a warning and goes on to the next address. Whether the
\* query is still being handled at that time is noted with it.
FanoutRouteFails(f) ==
    /\ \E t \in tasks : t.id = f.cur /\ InstallerFails(t)
    /\ fanout' = (fanout \ {f}) \cup fanout_next(f)
    /\ requests' = { IF r.id = f.id /\ r.pc = "send"
                     THEN [r EXCEPT !.route_failed = TRUE] ELSE r : r \in requests }
    /\ UNCHANGED <<calls, failed, cacheVars, matchVars, reloadVars, ttl_call, config, answered>>

\* Time passes, until every cached response has expired.
DnsTick == now < config.cache_max_ttl /\ Tick

NextDns ==
    \/ ReceiveOther
    \/ \E qname \in DnsNames : Receive(qname, "A")
    \/ \E r \in requests, reply \in UpstreamReplies : ForwardOk(r, reply)
    \/ \E r \in requests : ForwardErr(r)
    \/ \E r \in requests : SendResponse(r)
    \/ \E f \in fanout : FanoutAddRoute(f)
    \/ \E t \in tasks : ExecuteAction(t)
    \/ \E f \in fanout : FanoutReturn(f)
    \/ \E f \in fanout : FanoutRouteFails(f)
    \/ DnsTick

SpecDns == InitDns /\ [][NextDns]_vars

\* ============================ upstream selection and the TTL of a cached response

\* ------------------------------------------------------------------ inputs

\* The TTL overrides of an upstream server and of a zone: each of the three
\* settings is set or not, on its own.
ServerOverrides ==
    [cache_min_ttl : { <<>>, <<4>> }, cache_max_ttl : { <<>>, <<5>> },
     cache_negative_ttl : { <<>>, <<6>> }]

ZoneOverrides ==
    [cache_min_ttl : { <<>>, <<2>> }, cache_max_ttl : { <<>>, <<1>> },
     cache_negative_ttl : { <<>>, <<3>> }]

\* config::ServerConfig with the global TTL settings min 1, max 3, negative 2
\* and two default upstreams.
SelectConfig ==
    [ServerConfig("Fallback", 1) EXCEPT
        !.default_upstream = << "d1", "d2" >>,
        !.cache_min_ttl = 1, !.cache_max_ttl = 3, !.cache_negative_ttl = 2]

\* config::DnsServerConfig with TTL overrides.
DnsServerWith(address, o) ==
    [address |-> address, cache_min_ttl |-> o.cache_min_ttl,
     cache_max_ttl |-> o.cache_max_ttl, cache_negative_ttl |-> o.cache_negative_ttl]

\* config::ZoneConfig for "a.c" with the given upstreams, protocol and overrides.
SelectZone(dns_servers, dns_protocol, o) ==
    [CorpZone EXCEPT
        !.dns_servers = dns_servers, !.dns_protocol = dns_protocol,
        !.cache_min_ttl = o.cache_min_ttl, !.cache_max_ttl = o.cache_max_ttl,
        !.cache_negative_ttl = o.cache_negative_ttl]

\* The zones the handler is configured with: none, or the zone of "a.c" with
\* its own upstreams (the second with overrides) or without upstreams.
SelectZoneLists ==
    { <<>> } \cup
    { << SelectZone(dns_servers, dns_protocol, zo) >> :
        dns_servers \in { <<>> } \cup
                        { << DnsServer("u1"), DnsServerWith("u2", so) >> :
                            so \in ServerOverrides },
        dns_protocol \in { "Udp", "Tcp" },
        zo \in ZoneOverrides }

\* Upstream responses: answers with TTLs above, inside and below the limits,
\* no answer, and NXDomain with and without records.
SelectMessages ==
    { Message(1, "NoError", << [ip |-> 0, ttl |-> 7] >>),
      Message(1, "NoError", << [ip |-> 0, ttl |-> 3], [ip |-> 1, ttl |-> 2] >>),
      Message(1, "NoError", << [ip |-> 0, ttl |-> 0] >>),
      Message(1, "NoError", <<>>),
      Message(1, "NXDomain", <<>>),
      Message(1, "NXDomain", << [ip |-> 0, ttl |-> 7] >>) }

\* -------------------------------------------------------------- operations

InitSelect ==
    /\ prefix_len = AddrBits
    /\ installed = EmptyMap
    /\ known_ips = EmptyMap
    /\ last_call = [op |-> "new"]
    /\ actions = <<>>
    /\ zone_routes = EmptyMap
    /\ kernel = EmptyMap
    /\ tasks = {}
    /\ calls = 0
    /\ static_regs = {}
    /\ failed = FALSE
    /\ config = SelectConfig
    /\ cache_entries = EmptyMap
    /\ max_entries = config.cache_size
    /\ now = 0
    /\ cache_op = [op |-> "new"]
    /\ insert_deadline = EmptyMap
    /\ last_insert = EmptyMap
    /\ matcher_zones \in SelectZoneLists
    /\ match_call = [op |-> "new"]
    /\ requests = {}
    /\ answered = [id |-> 0]
    /\ fanout = {}
    /\ config_zones = matcher_zones
    /\ reload = ReloadIdle
    /\ passes = {}
    /\ installer_ok = TRUE
    /\ ttl_call = [op |-> "new"]

\* handle_request on a cache miss, as far as the TTL of the cache entry: the
\* zone, the upstream list and protocol, and, the i-th upstream having
\* answered with the message, resolve_cache_ttl for it.
SelectAndResolve(qname, i, message) ==
    LET zone == find_zone(matcher_zones, qname)
        upstreams == upstreams_for(zone, config)
    IN  /\ i \in DOMAIN upstreams
        /\ ttl_call' =
              [op |-> "resolve", qname |-> qname, zone |-> zone,
               upstreams |-> upstreams, protocol |-> protocol_for(zone),
               server_cfg |-> upstreams[i].server_cfg, message |-> message,
               result |-> resolve_cache_ttl(upstreams[i].server_cfg, zone, config, message)]
        /\ UNCHANGED <<aggVars, mgrVars, calls, cacheVars, matchVars, dnsVars, reloadVars>>

NextSelect ==
    \E qname \in DnsNames, i \in 1..2, message \in SelectMessages :
        SelectAndResolve(qname, i, message)

SpecSelect == InitSelect /\ [][NextSelect]_vars

\* ===================================== hot reload and the static routes

\* ---------------------------------------------------------- bounds, inputs

\* Number of new configurations the watcher sends in one behaviour.
MaxReloads == 1

\* The longest domain or pattern whose regex still compiles within the size
\* limit of Regex::new (scaled down).
RegexLimit == 4

\* A zone for "b" routed through a device, with a static route and no
\* upstream of its own.
VpnZone ==
    [CorpZone EXCEPT
        !.name = "vpn", !.domains = << <<"b">> >>,
        !.route_type = "Dev", !.route_target = "/run/z2.dev",
        !.dns_servers = <<>>, !.static_routes = << <<3, AddrBits>> >>]

\* The zone of "a.c" with a static route.
CorpStaticZone == [CorpZone EXCEPT !.static_routes = << <<0, AddrBits - 1>> >>]

\* A zone with a domain too long for Regex::new.
HugeZone ==
    [CorpZone EXCEPT !.name = "huge", !.domains = << <<"a", "a", "a", "a", "a">> >>]

\* config::Config
Config(server, zones) == [server |-> server, zones |-> zones]

\* The configurations the watcher sends while queries are served: no zone
\* and a larger cache; another zone and the same cache size; a zone list
\* whose matcher cannot be built.
ReloadConfigs ==
    { Config(ServerConfig("Fallback", 2), <<>>),
      Config(ServerConfig("Fallback", 1),
             << [VpnZone EXCEPT !.static_routes = <<>>] >>),
      Config(ServerConfig("Fallback", 1), << CorpZone, HugeZone >>) }

\* The zone lists of the configurations with static routes.
RetryZoneLists ==
    { << CorpStaticZone >>, << CorpStaticZone, VpnZone >>, << VpnZone >>,
      << CorpZone >>, << VpnZone, HugeZone >> }

\* An upstream response that is cached and has no address record (no route
\* task is spawned).
ReloadReplies ==
    { reply \in UpstreamReplies : reply.answers = <<>> /\ reply.rcode # "ServFail" }

\* -------------------------------------------------------------- operators

zone_names(zones) == { zones[i].name : i \in DOMAIN zones }

\* reload::get_zones_to_cleanup
get_zones_to_cleanup_all(old_zones, new_zones) == zone_names(old_zones)

get_zones_to_cleanup(old_zones, new_zones) ==
    zone_names(old_zones) \ zone_names(new_zones)

\* reload::get_new_zones
get_new_zones(old_zones, new_zones) ==
    LET is_new(z) == z.name \notin zone_names(old_zones)
    IN  SelectSeq(new_zones, is_new)

\* ZoneMatcher::new: Err (<<>>) when Regex::new fails for a domain or a
\* pattern, Ok(matcher) (<<zones>>) otherwise.
zone_matcher_new(zones) ==
    IF \A i \in DOMAIN zones :
          /\ \A j \in DOMAIN zones[i].domains : Len(zones[i].domains[j]) <= RegexLimit
          /\ \A j \in DOMAIN zones[i].patterns : Len(zones[i].patterns[j]) <= RegexLimit
    THEN << zones >>
    ELSE <<>>

\* DnsHandler::has_static_routes
has_static_routes(zones) == \E i \in DOMAIN zones : zones[i].static_routes # <<>>

\* The add_static_route calls of one apply_static_routes pass, in order.
RECURSIVE static_items(_)
static_items(zones) ==
    IF zones = <<>> THEN <<>>
    ELSE [j \in DOMAIN Head(zones).static_routes |->
            [cidr |-> Head(zones).static_routes[j], zone |-> Head(zones)]]
         \o static_items(Tail(zones))

\* `failures > 0 && handler_guard.has_static_routes()`: a retry task is spawned.
retry_needed(failures, zones) == failures > 0 /\ has_static_routes(zones)

\* retry_static_routes, `if failures == 0 { break }`
pass_succeeded_always(failures) == TRUE
pass_succeeded(failures) == failures = 0

\* The reload task after ZoneMatcher::new.
matcher_outcome_ignored(task, new_matcher) == [task EXCEPT !.pc = "update_cache"]

matcher_outcome(task, new_matcher) ==
    IF new_matcher = <<>>
    THEN [task EXCEPT !.pc = "idle", !.outcome = "failed"]
    ELSE [task EXCEPT !.pc = "update_cache"]

\* Configuration, matcher and cache of the handler.
HandlerState == <<config, config_zones, matcher_zones, cache_entries, max_entries>>

\* Some task holds the read lock of the handler: a query being handled, or an
\* apply_static_routes pass of the startup code or of a retry task.
read_locked ==
    \/ \E r \in requests : r.pc # "done"
    \/ \E p \in passes : p.pc = "pass"

\* A retry_static_routes task, asleep.
RetryTask(id) == [id |-> id, kind |-> "retry", pc |-> "sleep", items |-> <<>>, failures |-> 0]

\* The tasks left when the apply_static_routes pass of task p is over: the
\* startup code spawns a retry task after a failure; a retry task ends after
\* a pass without failure and sleeps again otherwise.
after_pass(p, zones) ==
    IF p.kind = "startup"
    THEN IF retry_needed(p.failures, zones) THEN { RetryTask(0) } ELSE {}
    ELSE IF pass_succeeded(p.failures) THEN {} ELSE { RetryTask(p.id) }

\* -------------------------------------------------------------- operations

\* RouteManager::add_static_route as apply_static_routes awaits it: the
\* address is registered with the aggregator; then the device file is read
\* and the installer called, and on success the address is recorded.
AddStaticRouteCall(cidr, zone) ==
    /\ known_ips' = register_static_ip(known_ips, cidr[1], zone.name)
    /\ last_call' = [op |-> "register_static_ip", ip |-> cidr[1], zone |-> zone.name]
    /\ static_regs' = static_regs \cup
            { [ip |-> cidr[1], prefix_len |-> cidr[2], zone |-> zone.name] }
    /\ kernel' = IF installer_ok
                 THEN installer_add(kernel, cidr[1], cidr[2],
                                    zone.route_type, zone.route_target)
                 ELSE kernel
    /\ zone_routes' = IF installer_ok
                      THEN zone_routes_insert(zone_routes, zone.name, cidr[1])
                      ELSE zone_routes
    /\ UNCHANGED <<prefix_len, installed, actions, tasks, failed>>

\* The reload task receives a new configuration from the watcher and asks
\* for the write lock of the handler. (The watcher is started once the
\* startup code has applied the static routes.)
ReloadReceive(new_config) ==
    /\ reload.pc = "idle"
    /\ reload.count < MaxReloads
    /\ \A p \in passes : p.kind # "startup"
    /\ reload' = [ReloadIdle EXCEPT !.pc = "wait", !.count = reload.count + 1,
                                    !.new = << new_config >>]
    /\ UNCHANGED <<aggVars, mgrVars, calls, cacheVars, matchVars, dnsVars,
                   config_zones, passes, installer_ok, ttl_call>>

\* `handler_clone.write().await` returns, no task holding the read lock; the
\* zones to clean up and the new zones are computed from the old
\* configuration.
ReloadLock ==
    /\ reload.pc = "wait"
    /\ ~read_locked
    /\ reload' = [reload EXCEPT
                    !.pc = "cleanup",
                    !.old_zones = config_zones,
                    !.to_cleanup = get_zones_to_cleanup(config_zones, reload.new[1].zones),
                    !.cleaned = {},
                    !.new_zones = get_new_zones(config_zones, reload.new[1].zones),
                    !.before = << HandlerState >>]
    /\ UNCHANGED <<aggVars, mgrVars, calls, cacheVars, matchVars, dnsVars,
                   config_zones, passes, installer_ok, ttl_call>>

\* `handler_guard.cleanup_zone(&zone_name).await` for the next zone of
\* zones_to_cleanup.
ReloadCleanup(zone_name) ==
    /\ reload.pc = "cleanup"
    /\ zone_name \in reload.to_cleanup \ reload.cleaned
    /\ CleanupZoneTracking(zone_name)
    /\ reload' = [reload EXCEPT !.cleaned = @ \cup {zone_name}]
    /\ UNCHANGED <<calls, cacheVars, matchVars, dnsVars,
                   config_zones, passes, installer_ok, ttl_call>>

\* ZoneMatcher::new for the zones of the new configuration: on Err the error
\* is logged and the write lock released.
ReloadBuildMatcher ==
    /\ reload.pc = "cleanup"
    /\ reload.cleaned = reload.to_cleanup
    /\ reload' = matcher_outcome(reload, zone_matcher_new(reload.new[1].zones))
    /\ UNCHANGED <<aggVars, mgrVars, calls, cacheVars, matchVars, dnsVars,
                   config_zones, passes, installer_ok, ttl_call>>

\* DnsHandler::update_config, the cache: a new one when the size changed,
\* cleared otherwise.
UpdateCache ==
    /\ reload.pc = "update_cache"
    /\ IF reload.new[1].server.cache_size # config.cache_size
       THEN /\ cache_entries' = EmptyMap
            /\ max_entries' = reload.new[1].server.cache_size
       ELSE /\ cache_entries' = cache_clear(cache_entries)
            /\ max_entries' = max_entries
    /\ reload' = [reload EXCEPT !.pc = "update_config"]
    /\ UNCHANGED <<aggVars, mgrVars, calls, now, cache_op, insert_deadline, last_insert,
                   matchVars, dnsVars, config_zones, passes, installer_ok, ttl_call>>

\* DnsHandler::update_config, `self.config = Arc::new(new_config)`
UpdateConfig ==
    /\ reload.pc = "update_config"
    /\ config' = reload.new[1].server
    /\ config_zones' = reload.new[1].zones
    /\ reload' = [reload EXCEPT !.pc = "update_matcher"]
    /\ UNCHANGED <<aggVars, mgrVars, calls, cacheVars, matchVars,
                   requests, answered, fanout, passes, installer_ok, ttl_call>>

\* DnsHandler::update_config, `self.matcher = Arc::new(new_matcher)`; the
\* reload task goes on to apply_static_routes.
UpdateMatcher ==
    /\ reload.pc = "update_matcher"
    /\ matcher_zones' = reload.new[1].zones
    /\ reload' = [reload EXCEPT !.pc = "static", !.failures = 0,
                                !.items = static_items(config_zones)]
    /\ UNCHANGED <<aggVars, mgrVars, calls, cacheVars, match_call, dnsVars,
                   config_zones, passes, installer_ok, ttl_call>>

\* apply_static_routes of the reload task: the next add_static_route call.
ReloadApply ==
    /\ reload.pc = "static"
    /\ reload.items # <<>>
    /\ AddStaticRouteCall(Head(reload.items).cidr, Head(reload.items).zone)
    /\ reload' = [reload EXCEPT
                    !.items = Tail(@),
                    !.failures = IF installer_ok THEN @ ELSE @ + 1]
    /\ UNCHANGED <<calls, cacheVars, matchVars, dnsVars,
                   config_zones, passes, installer_ok, ttl_call>>

\* apply_static_routes has returned: after a failure a retry task is
\* spawned; the write lock is released.
ReloadFinish ==
    /\ reload.pc = "static"
    /\ reload.items = <<>>
    /\ passes' = IF retry_needed(reload.failures, config_zones)
                 THEN passes \cup { RetryTask(reload.count) }
                 ELSE passes
    /\ reload' = [reload EXCEPT !.pc = "idle", !.outcome = "applied"]
    /\ UNCHANGED <<aggVars, mgrVars, calls, cacheVars, matchVars, dnsVars,
                   config_zones, installer_ok, ttl_call>>

\* apply_static_routes of the startup code or of a retry task: the next
\* add_static_route call.
PassApply(p) ==
    /\ p.pc = "pass"
    /\ p.items # <<>>
    /\ AddStaticRouteCall(Head(p.items).cidr, Head(p.items).zone)
    /\ passes' = (passes \ {p}) \cup
          { [p EXCEPT !.items = Tail(@),
                      !.failures = IF installer_ok THEN @ ELSE @ + 1] }
    /\ UNCHANGED <<calls, cacheVars, matchVars, dnsVars,
                   config_zones, reload, installer_ok, ttl_call>>

\* apply_static_routes has returned and the read lock is released.
PassEnd(p) ==
    /\ p.pc = "pass"
    /\ p.items = <<>>
    /\ passes' = (passes \ {p}) \cup after_pass(p, config_zones)
    /\ UNCHANGED <<aggVars, mgrVars, calls, cacheVars, matchVars, dnsVars,
                   config_zones, reload, installer_ok, ttl_call>>

\* retry_static_routes: `tokio::time::sleep(Duration::from_secs(10))` is
\* over; the task asks for the read lock of the handler.
RetryWake(p) ==
    /\ p.pc = "sleep"
    /\ passes' = (passes \ {p}) \cup { [p EXCEPT !.pc = "lock"] }
    /\ UNCHANGED <<aggVars, mgrVars, calls, cacheVars, matchVars, dnsVars,
                   config_zones, reload, installer_ok, ttl_call>>

\* retry_static_routes: `handler.read().await` returns and a pass over the
\* static routes of the current configuration begins.
RetryLock(p) ==
    /\ p.pc = "lock"
    /\ read_granted(reload)
    /\ passes' = (passes \ {p}) \cup
          { [p EXCEPT !.pc = "pass", !.failures = 0,
                      !.items = static_items(config_zones)] }
    /\ UNCHANGED <<aggVars, mgrVars, calls, cacheVars, matchVars, dnsVars,
                   config_zones, reload, installer_ok, ttl_call>>

\* A tunnel comes up or goes down: device files appear or vanish and the
\* kernel takes or refuses routes.
InstallerChanges ==
    /\ installer_ok' = ~installer_ok
    /\ UNCHANGED <<aggVars, mgrVars, calls, cacheVars, matchVars, dnsVars,
                   config_zones, reload, passes, ttl_call>>

\* The zone names of the configurations.
ZoneNamesOfConfigs == { "corp", "vpn", "huge" }

\* The steps of the reload task once it has a new configuration.
ReloadStep ==
    \/ ReloadLock
    \/ \E zone_name \in ZoneNamesOfConfigs : ReloadCleanup(zone_name)
    \/ ReloadBuildMatcher
    \/ UpdateCache
    \/ UpdateConfig
    \/ UpdateMatcher
    \/ ReloadFinish

\* The steps of the startup code and of the retry tasks.
PassStep(id) ==
    \E p \in passes :
        /\ p.id = id
        /\ (PassApply(p) \/ PassEnd(p) \/ RetryWake(p) \/ RetryLock(p))

\* The steps of the handle_request call with the given id.
RequestStep(id) ==
    \E r \in requests :
        /\ r.id = id
        /\ \/ \E reply \in ReloadReplies : ForwardOk(r, reply)
           \/ ForwardErr(r)
           \/ SendResponse(r)

\* --------------------------------------- queries and reloads: SpecReload

InitReload ==
    /\ prefix_len = AddrBits
    /\ installed = EmptyMap
    /\ known_ips = EmptyMap
    /\ last_call = [op |-> "new"]
    /\ actions = <<>>
    /\ zone_routes = EmptyMap
    /\ kernel = EmptyMap
    /\ tasks = {}
    /\ calls = 0
    /\ static_regs = {}
    /\ failed = FALSE
    /\ config = ServerConfig("Fallback", 1)
    /\ cache_entries = EmptyMap
    /\ max_entries = config.cache_size
    /\ now = 0
    /\ cache_op = [op |-> "new"]
    /\ insert_deadline = EmptyMap
    /\ last_insert = EmptyMap
    /\ matcher_zones = << CorpZone >>
    /\ match_call = [op |-> "new"]
    /\ requests = {}
    /\ answered = [id |-> 0]
    /\ fanout = {}
    /\ config_zones = << CorpZone >>
    /\ reload = ReloadIdle
    /\ passes = {}
    /\ installer_ok = TRUE
    /\ ttl_call = [op |-> "new"]

NextReload ==
    \/ \E qname \in DnsNames : Receive(qname, "A")
    \/ \E r \in requests, reply \in ReloadReplies : ForwardOk(r, reply)
    \/ \E r \in requests : ForwardErr(r)
    \/ \E r \in requests : SendResponse(r)
    \/ \E new_config \in ReloadConfigs : ReloadReceive(new_config)
    \/ ReloadStep

\* Upstream attempts end (by a response, an error or the timeout), a ready
\* task runs, and a lock that is free is granted.
SpecReload ==
    /\ InitReload
    /\ [][NextReload]_vars
    /\ \A id \in 1..MaxQueries : WF_vars(RequestStep(id))
    /\ WF_vars(ReloadStep)

\* ---------------------------- static routes, reloads, retries: SpecRetry

\* run_server after DnsHandler::new: the startup code is about to apply the
\* static routes.
InitRetry ==
    /\ prefix_len = AddrBits
    /\ installed = EmptyMap
    /\ known_ips = EmptyMap
    /\ last_call = [op |-> "new"]
    /\ actions = <<>>
    /\ zone_routes = EmptyMap
    /\ kernel = EmptyMap
    /\ tasks = {}
    /\ calls = 0
    /\ static_regs = {}
    /\ failed = FALSE
    /\ config = ServerConfig("Fallback", 1)
    /\ cache_entries = EmptyMap
    /\ max_entries = config.cache_size
    /\ now = 0
    /\ cache_op = [op |-> "new"]
    /\ insert_deadline = EmptyMap
    /\ last_insert = EmptyMap
    /\ config_zones \in { zones \in RetryZoneLists : zone_matcher_new(zones) # <<>> }
    /\ matcher_zones = config_zones
    /\ match_call = [op |-> "new"]
    /\ requests = {}
    /\ answered = [id |-> 0]
    /\ fanout = {}
    /\ reload = ReloadIdle
    /\ passes = { [id |-> 0, kind |-> "startup", pc |-> "pass",
                   items |-> static_items(config_zones), failures |-> 0] }
    /\ installer_ok \in BOOLEAN
    /\ ttl_call = [op |-> "new"]

NextRetry ==
    \/ \E zones \in RetryZoneLists :
          ReloadReceive(Config(ServerConfig("Fallback", 1), zones))
    \/ ReloadStep
    \/ ReloadApply
    \/ \E p \in passes : PassApply(p)
    \/ \E p \in passes : PassEnd(p)
    \/ \E p \in passes : RetryWake(p)
    \/ \E p \in passes : RetryLock(p)
    \/ InstallerChanges

SpecRetry ==
    /\ InitRetry
    /\ [][NextRetry]_vars
    /\ WF_vars(ReloadStep \/ ReloadApply)
    /\ \A id \in 0..MaxReloads : WF_vars(PassStep(id))

\* ------------------- queries, their route tasks and reloads: SpecPurge

\* The zone of "a.c" with another gateway.
CorpMovedZone == [CorpZone EXCEPT !.route_target = "gw2"]

\* The configurations the watcher sends while route tasks run: no zone; a
\* zone list without corp whose matcher cannot be built; corp with another
\* gateway.
PurgeConfigs ==
    { Config(ServerConfig("Fallback", 1), <<>>),
      Config(ServerConfig("Fallback", 1), << HugeZone >>),
      Config(ServerConfig("Fallback", 1), << CorpMovedZone >>) }

\* Upstream responses that end the failover loop with a response to cache.
PurgeReplies == { reply \in UpstreamReplies : reply.rcode # "ServFail" }

\* DnsHandler::new with the zone corp, a cache and a route manager that
\* aggregates.
InitPurge ==
    /\ prefix_len = AddrBits - 1
    /\ installed = EmptyMap
    /\ known_ips = EmptyMap
    /\ last_call = [op |-> "new"]
    /\ actions = <<>>
    /\ zone_routes = EmptyMap
    /\ kernel = EmptyMap
    /\ tasks = {}
    /\ calls = 0
    /\ static_regs = {}
    /\ failed = FALSE
    /\ config = ServerConfig("Fallback", 1)
    /\ cache_entries = EmptyMap
    /\ max_entries = config.cache_size
    /\ now = 0
    /\ cache_op = [op |-> "new"]
    /\ insert_deadline = EmptyMap
    /\ last_insert = EmptyMap
    /\ matcher_zones = << CorpZone >>
    /\ match_call = [op |-> "new"]
    /\ requests = {}
    /\ answered = [id |-> 0]
    /\ fanout = {}
    /\ config_zones = << CorpZone >>
    /\ reload = ReloadIdle
    /\ passes = {}
    /\ installer_ok = TRUE
    /\ ttl_call = [op |-> "new"]

NextPurge ==
    \/ \E qname \in DnsNames : Receive(qname, "A")
    \/ \E r \in requests, reply \in PurgeReplies : ForwardOk(r, reply)
    \/ \E r \in requests : ForwardErr(r)
    \/ \E r \in requests : SendResponse(r)
    \/ \E f \in fanout : FanoutAddRoute(f)
    \/ \E t \in tasks : ExecuteAction(t)
    \/ \E f \in fanout : FanoutReturn(f)
    \/ \E new_config \in PurgeConfigs : ReloadReceive(new_config)
    \/ ReloadStep

SpecPurge == InitPurge /\ [][NextPurge]_vars

\* ------------------------- the locks of the route manager: SpecLocks

\* Number of route-manager calls one behaviour of SpecLocks starts.
MaxLockCalls == 3

\* The addresses of the add_route calls and the static routes of SpecLocks.
LockIPs == {0}
LockCidrs == { <<3, AddrBits>> }

\* A call on the route manager: where it stands, whether it holds the guard
\* of the aggregator mutex and the write guard of zone_routes, and the
\* actions it has still to execute.
LockCall(id, op, pc, ip, prefix, zone) ==
    [id |-> id, op |-> op, pc |-> pc, agg |-> FALSE, routes |-> FALSE,
     ip |-> ip, prefix_len |-> prefix, zone |-> zone, pending |-> <<>>]

\* `self.aggregator.lock().await` and `self.zone_routes.write().await` return
\* when no other call holds the guard.
agg_free(c) == \A d \in tasks : d.id # c.id => ~d.agg
routes_free(c) == \A d \in tasks : d.id # c.id => ~d.routes

\* add_route_v4 after the block `{ let mut agg = ..; agg.process_ip(..) }`:
\* the guard is dropped at the end of the block; with no action the call
\* returns, else it goes on to execute the actions.
after_process_ip_holding(c, acts) ==
    IF acts = <<>> THEN {} ELSE { [c EXCEPT !.pc = "execute", !.pending = acts] }

after_process_ip(c, acts) ==
    IF acts = <<>> THEN {}
    ELSE { [c EXCEPT !.agg = FALSE, !.pc = "execute", !.pending = acts] }

\* An add_route, add_static_route or cleanup_zone call begins.
LockCallStart(c) ==
    /\ calls < MaxLockCalls
    /\ calls' = calls + 1
    /\ tasks' = tasks \cup {c}
    /\ UNCHANGED <<aggVars, zone_routes, kernel, static_regs, failed, resolverVars>>

\* `self.aggregator.lock().await` returns: add_route_v4 and add_static_route
\* hold no other guard, cleanup_zone holds the write guard of zone_routes.
AcquireAgg(c) ==
    /\ c.pc = "lock_agg"
    /\ agg_free(c)
    /\ tasks' = (tasks \ {c}) \cup { [c EXCEPT !.agg = TRUE, !.pc = "locked_agg"] }
    /\ UNCHANGED <<aggVars, zone_routes, kernel, calls, static_regs, failed, resolverVars>>

\* add_route_v4: process_ip under the guard.
ProcessIpLocked(c) ==
    /\ c.op = "add_route"
    /\ c.pc = "locked_agg"
    /\ \E order \in conflict_orders(prefix_len, known_ips, c.ip, c.zone.name) :
        LET r == process_ip(prefix_len, installed, known_ips, c.ip,
                            c.zone.name, c.zone.route_type, c.zone.route_target, order)
        IN  /\ installed' = r.installed
            /\ known_ips' = r.known_ips
            /\ actions' = r.actions
            /\ last_call' = [op |-> "process_ip", ip |-> c.ip, zone |-> c.zone.name]
            /\ tasks' = (tasks \ {c}) \cup after_process_ip(c, r.actions)
    /\ UNCHANGED <<prefix_len, zone_routes, kernel, calls, static_regs, failed, resolverVars>>

\* add_static_route: register_static_ip under the guard, dropped at the end
\* of the `if let` block; a Dev route reads its device file next.
RegisterLocked(c) ==
    /\ c.op = "add_static_route"
    /\ c.pc = "locked_agg"
    /\ known_ips' = register_static_ip(known_ips, c.ip, c.zone.name)
    /\ last_call' = [op |-> "register_static_ip", ip |-> c.ip, zone |-> c.zone.name]
    /\ static_regs' = static_regs \cup
            { [ip |-> c.ip, prefix_len |-> c.prefix_len, zone |-> c.zone.name] }
    /\ tasks' = (tasks \ {c}) \cup
          { [c EXCEPT !.agg = FALSE,
                      !.pc = IF c.zone.route_type = "Dev" THEN "read_device" ELSE "execute",
                      !.pending = << ActionAdd(c.ip, c.prefix_len,
                                               c.zone.route_type, c.zone.route_target) >>] }
    /\ UNCHANGED <<prefix_len, installed, actions, zone_routes, kernel, calls, failed,
                   resolverVars>>

\* add_static_route: `self.read_device_file(&zone.route_target).await?`
ReadDeviceFile(c) ==
    /\ c.pc = "read_device"
    /\ tasks' = (tasks \ {c}) \cup { [c EXCEPT !.pc = "execute"] }
    /\ UNCHANGED <<aggVars, zone_routes, kernel, calls, static_regs, failed, resolverVars>>

\* The next installer call of the call (for a Dev action of add_route_v4,
\* with the read of the device file), succeeding; after the last one the
\* call asks for the write guard of zone_routes.
InstallerCall(c) ==
    /\ c.pc = "execute"
    /\ kernel' = execute_action(kernel, Head(c.pending))
    /\ tasks' = (tasks \ {c}) \cup
          { [c EXCEPT !.pending = Tail(@),
                      !.pc = IF Len(c.pending) = 1 THEN "lock_routes" ELSE "execute"] }
    /\ UNCHANGED <<aggVars, zone_routes, calls, static_regs, failed, resolverVars>>

\* The installer call or the read of the device file fails: the call returns
\* the error, its guards dropped.
InstallerErr(c) ==
    /\ c.pc \in {"execute", "read_device"}
    /\ tasks' = tasks \ {c}
    /\ failed' = TRUE
    /\ UNCHANGED <<aggVars, zone_routes, kernel, calls, static_regs, resolverVars>>

\* add_route_v4 and add_static_route: `self.zone_routes.write().await`
\* returns, the address is recorded and the call returns Ok.
RecordLocked(c) ==
    /\ c.op \in {"add_route", "add_static_route"}
    /\ c.pc = "lock_routes"
    /\ routes_free(c)
    /\ zone_routes' = zone_routes_insert(zone_routes, c.zone.name, c.ip)
    /\ tasks' = tasks \ {c}
    /\ UNCHANGED <<aggVars, kernel, calls, static_regs, failed, resolverVars>>

\* cleanup_zone: `self.zone_routes.write().await` returns and the set of the
\* zone is removed; the call asks for the aggregator mutex, the write guard
\* still held.
CleanupRoutesLocked(c) ==
    /\ c.op = "cleanup_zone"
    /\ c.pc = "lock_routes"
    /\ routes_free(c)
    /\ zone_routes' = MapRemove(zone_routes, c.zone.name)
    /\ tasks' = (tasks \ {c}) \cup { [c EXCEPT !.routes = TRUE, !.pc = "lock_agg"] }
    /\ UNCHANGED <<aggVars, kernel, calls, static_regs, failed, resolverVars>>

\* cleanup_zone: the aggregator is cleaned under its guard and the call
\* returns, both guards dropped.
CleanupAggLocked(c) ==
    /\ c.op = "cleanup_zone"
    /\ c.pc = "locked_agg"
    /\ installed' = cleanup_zone_installed(installed, c.zone.name)
    /\ known_ips' = cleanup_zone_known(known_ips, c.zone.name)
    /\ last_call' = [op |-> "cleanup_zone", zone |-> c.zone.name]
    /\ tasks' = tasks \ {c}
    /\ UNCHANGED <<prefix_len, actions, zone_routes, kernel, calls, static_regs, failed,
                   resolverVars>>

\* The route manager with aggregation, nothing installed.
InitLocks == Init /\ prefix_len = AddrBits - 1

NextLocks ==
    \/ \E ip \in LockIPs, zone \in Zones :
          LockCallStart(LockCall(FreshTask, "add_route", "lock_agg", ip, AddrBits, zone))
    \/ \E cidr \in LockCidrs, zone \in Zones :
          LockCallStart(LockCall(FreshTask, "add_static_route", "lock_agg",
                                 cidr[1], cidr[2], zone))
    \/ \E zone \in Zones :
          LockCallStart(LockCall(FreshTask, "cleanup_zone", "lock_routes", 0, 0, zone))
    \/ \E c \in tasks : AcquireAgg(c)
    \/ \E c \in tasks : ProcessIpLocked(c)
    \/ \E c \in tasks : RegisterLocked(c)
    \/ \E c \in tasks : ReadDeviceFile(c)
    \/ \E c \in tasks : InstallerCall(c)
    \/ \E c \in tasks : InstallerErr(c)
    \/ \E c \in tasks : RecordLocked(c)
    \/ \E c \in tasks : CleanupRoutesLocked(c)
    \/ \E c \in tasks : CleanupAggLocked(c)

SpecLocks == InitLocks /\ [][NextLocks]_vars

\* ------------------------------ add_route calls one at a time: SpecSeq

\* Number of add_route calls one behaviour of SpecSeq makes.
MaxSeqCalls == 4

\* add_route is called when the call before it has returned; every installer
\* call succeeds; no add_static_route and no cleanup_zone.
NextSeq ==
    \/ \E ip \in IPs, zone \in Zones :
          calls < MaxSeqCalls /\ tasks = {} /\ AddRouteStart(ip, zone)
    \/ \E t \in tasks : ExecuteAction(t)
    \/ \E t \in tasks : AddRouteFinish(t)

SpecSeq == Init /\ [][NextSeq]_vars

\* ============================================================ the claims

\* Every address of the address space.
Addrs == 0..(2 ^ AddrBits - 1)

\* Whether the range of key k = (network, prefix_len) contains address a.
Covers(k, a) ==
    a \div (2 ^ (AddrBits - k[2])) = k[1] \div (2 ^ (AddrBits - k[2]))

\* The installed keys whose range contains address a.
CoveringKeys(inst, a) == { k \in DOMAIN inst : Covers(k, a) }

ZoneByName(zone_name) == CHOOSE z \in Zones : z.name = zone_name

\* Aggregation is enabled (prefix_len < 32).
Enabled == prefix_len < AddrBits

\* C1: after any sequence of process_ip, register_static_ip and cleanup_zone
\* calls, no two distinct keys of `installed` overlap: every address is covered
\* by at most one installed key.
C1_NoOverlap ==
    \A a \in Addrs : Cardinality(CoveringKeys(installed, a)) <= 1

\* C3: for every ip in known_ips with known_ips[ip] = Z, either no installed
\* route covers ip, or the installed route that covers ip is owned by Z.
C3_KnownIpOwner ==
    \A ip \in DOMAIN known_ips :
        \A k \in CoveringKeys(installed, ip) :
            installed[k].zone_name = known_ips[ip]

\* process_ip(ip, zone) on the current aggregator state, the conflicts yielded
\* in the order `order`.
Call(ip, zone, order) ==
    process_ip(prefix_len, installed, known_ips, ip,
               zone.name, zone.route_type, zone.route_target, order)

CallOrders(ip, zone) == conflict_orders(prefix_len, known_ips, ip, zone.name)

\* C4: when process_ip(ip, Z, t, g) is called twice in a row, the second call
\* returns an empty action list and leaves `installed` and `known_ips` exactly
\* as the first call left them. (In every state a process_ip call has just
\* produced, the same call once more is a no-op.)
C4_SecondCallNoOp ==
    last_call.op = "process_ip" =>
        LET zone == ZoneByName(last_call.zone)
        IN  \A order \in CallOrders(last_call.ip, zone) :
                LET r == Call(last_call.ip, zone, order)
                IN  /\ r.actions = <<>>
                    /\ r.installed = installed
                    /\ r.known_ips = known_ips

\* The first of the two calls split another zone's aggregate.
C4_Witness ==
    /\ last_call.op = "process_ip"
    /\ Enabled
    /\ Len(actions) >= 3
    /\ actions[1].kind = "Remove"

\* C5: with agg_prefix = 32 (or unset), process_ip(ip, ...) returns no actions
\* when (ip, 32) is already installed, and otherwise records (ip, 32) and
\* returns exactly one Add{ip, 32, route_type, route_target}; it never emits a
\* Remove nor an Add with prefix_len < 32.
C5_DisabledMode ==
    ~Enabled =>
        /\ \A i \in 1..Len(actions) :
              actions[i].kind = "Add" /\ actions[i].prefix_len = AddrBits
        /\ \A ip \in IPs, zone \in Zones : \A order \in CallOrders(ip, zone) :
              LET r == Call(ip, zone, order)
              IN  IF <<ip, AddrBits>> \in DOMAIN installed
                  THEN r.actions = <<>> /\ r.installed = installed
                  ELSE /\ r.actions = <<[kind |-> "Add", network |-> ip,
                                         prefix_len |-> AddrBits,
                                         route_type |-> zone.route_type,
                                         route_target |-> zone.route_target]>>
                       /\ DOMAIN r.installed = DOMAIN installed \cup {<<ip, AddrBits>>}
                       /\ r.installed[<<ip, AddrBits>>].zone_name = zone.name
                       /\ \A k \in DOMAIN installed : r.installed[k] = installed[k]

\* Disabled mode: a host route was recorded, and the same address was then
\* processed again without any action.
C5_Witness ==
    /\ ~Enabled
    /\ last_call.op = "process_ip"
    /\ actions = <<>>
    /\ <<last_call.ip, AddrBits>> \in DOMAIN installed
    /\ Cardinality(DOMAIN installed) >= 2

\* The range of the aggregate of ip.
AggRange(ip) == { a \in Addrs : ip_in_network(a, network_address(ip, prefix_len), prefix_len) }

\* The last call was process_ip and found no route covering its address: it
\* took the "not covered" path, whose first action adds the new aggregate.
LastCallMissed ==
    /\ Enabled
    /\ last_call.op = "process_ip"
    /\ actions # <<>>
    /\ actions[1].kind = "Add"

\* The known IPs of other zones in the aggregate range of the last call's
\* address (the call itself recorded only its own address).
LastCallConflicts ==
    { k \in DOMAIN known_ips :
        /\ k # last_call.ip
        /\ k \in AggRange(last_call.ip)
        /\ known_ips[k] # last_call.zone }

\* C6: with aggregation enabled, when no installed route covers ip and no known
\* IP of another zone lies in ip's aggregate range, process_ip(ip, Z) emits
\* exactly one action, Add{network_address(ip, agg_prefix), agg_prefix} with Z's
\* route type and target; afterwards process_ip for any address of that range
\* and the same zone Z emits no actions.
C6_NewAggregate ==
    (LastCallMissed /\ LastCallConflicts = {}) =>
        LET zone == ZoneByName(last_call.zone)
        IN  /\ actions = <<[kind |-> "Add",
                            network |-> network_address(last_call.ip, prefix_len),
                            prefix_len |-> prefix_len,
                            route_type |-> zone.route_type,
                            route_target |-> zone.route_target]>>
            /\ \A j \in AggRange(last_call.ip) :
                  \A order \in CallOrders(j, zone) :
                      Call(j, zone, order).actions = <<>>

\* The block of prefix length q beside the block of length q that holds ip.
SiblingAt(ip, q) ==
    LET block == ip \div (2 ^ (AddrBits - q))
    IN  (IF block % 2 = 0 THEN block + 1 ELSE block - 1) * (2 ^ (AddrBits - q))

\* C7: with aggregation enabled, when ip is covered by an installed route
\* (net, p) owned by a different zone, process_ip emits, in this order: one
\* Remove{net, p}; then 32 - p sibling Adds carrying the old owner's route type
\* and target, one at each prefix length p+1, ..., 32; then, last, one
\* Add{ip, 32} for the new zone. The siblings together with ip/32 exactly
\* partition the address range of (net, p), and `installed` afterwards holds
\* exactly these keys in place of (net, p). (The covering route is the one the
\* lookup returns.)
C7_SplitAroundIp ==
    Enabled =>
        \A ip \in IPs, zone \in Zones :
            LET cov == find_covering_route(installed, ip)
            IN  (cov.found /\ cov.owner.zone_name # zone.name) =>
                \A order \in CallOrders(ip, zone) :
                    LET r == Call(ip, zone, order)
                        net == cov.key[1]
                        p == cov.key[2]
                        n == AddrBits - p
                        siblings == { <<SiblingAt(ip, q), q>> : q \in (p + 1)..AddrBits }
                        fresh == siblings \cup { <<ip, AddrBits>> }
                    IN  /\ Len(r.actions) = n + 2
                        /\ r.actions[1] = [kind |-> "Remove", network |-> net,
                                           prefix_len |-> p]
                        /\ \A i \in 1..n :
                              r.actions[i + 1] =
                                  [kind |-> "Add", network |-> SiblingAt(ip, p + i),
                                   prefix_len |-> p + i,
                                   route_type |-> cov.owner.route_type,
                                   route_target |-> cov.owner.route_target]
                        /\ r.actions[n + 2] =
                              [kind |-> "Add", network |-> ip, prefix_len |-> AddrBits,
                               route_type |-> zone.route_type,
                               route_target |-> zone.route_target]
                        /\ \A a \in Addrs :
                              Cardinality({ k \in fresh : Covers(k, a) }) =
                                  IF Covers(cov.key, a) THEN 1 ELSE 0
                        /\ DOMAIN r.installed = (DOMAIN installed \ {cov.key}) \cup fresh
                        /\ \A k \in siblings : r.installed[k] = cov.owner
                        /\ r.installed[<<ip, AddrBits>>] =
                              [zone_name |-> zone.name, route_type |-> zone.route_type,
                               route_target |-> zone.route_target]
                        /\ \A k \in DOMAIN installed \ (fresh \cup {cov.key}) :
                              r.installed[k] = installed[k]

\* A process_ip call has split an aggregate of another zone: the Remove, the
\* siblings for the old owner, then the /32 of the new zone.
C7_Witness ==
    /\ Enabled
    /\ last_call.op = "process_ip"
    /\ Len(actions) = AddrBits - prefix_len + 2
    /\ actions[1] = [kind |-> "Remove",
                     network |-> network_address(last_call.ip, prefix_len),
                     prefix_len |-> prefix_len]
    /\ actions[Len(actions)].network = last_call.ip
    /\ installed[<<last_call.ip, AddrBits>>].zone_name = last_call.zone
    /\ \E k \in DOMAIN installed : installed[k].zone_name # last_call.zone

\* C8: with aggregation enabled, when process_ip(ip, Z) creates a new aggregate
\* whose range contains known IPs of other zones, the emitted actions contain no
\* Add{k, 32} for any such conflicting address k, and after the call no
\* installed route owned by Z covers any conflicting k, while ip itself is
\* covered by a route owned by Z.
C8_CarveOut ==
    (LastCallMissed /\ LastCallConflicts # {}) =>
        /\ \A i \in 1..Len(actions), k \in LastCallConflicts :
              ~(/\ actions[i].kind = "Add"
                /\ actions[i].network = k
                /\ actions[i].prefix_len = AddrBits)
        /\ \A k \in LastCallConflicts :
              \A key \in CoveringKeys(installed, k) :
                  installed[key].zone_name # last_call.zone
        /\ \E key \in CoveringKeys(installed, last_call.ip) :
              installed[key].zone_name = last_call.zone

\* C2: after cleanup_zone(Z) (route manager and aggregator), no `installed`
\* key, no `known_ips` entry and no per-zone route-set entry references Z; the
\* entries of every other zone are unchanged; and no installer call (kernel add
\* or remove) is made by the cleanup.
C2_CleanupZone ==
    [][ (calls' = calls + 1 /\ last_call'.op = "cleanup_zone") =>
          LET Z == last_call'.zone
          IN  /\ \A k \in DOMAIN installed' : installed'[k].zone_name # Z
              /\ \A ip \in DOMAIN known_ips' : known_ips'[ip] # Z
              /\ Z \notin DOMAIN zone_routes'
              /\ \A k \in DOMAIN installed :
                    installed[k].zone_name # Z =>
                        k \in DOMAIN installed' /\ installed'[k] = installed[k]
              /\ DOMAIN installed' \subseteq DOMAIN installed
              /\ \A ip \in DOMAIN known_ips :
                    known_ips[ip] # Z =>
                        ip \in DOMAIN known_ips' /\ known_ips'[ip] = known_ips[ip]
              /\ DOMAIN known_ips' \subseteq DOMAIN known_ips
              /\ \A z \in DOMAIN zone_routes :
                    z # Z => z \in DOMAIN zone_routes' /\ zone_routes'[z] = zone_routes[z]
              /\ DOMAIN zone_routes' \subseteq DOMAIN zone_routes
              /\ kernel' = kernel
              /\ tasks' = tasks
      ]_vars

\* A zone whose route the kernel holds and whose address was recorded in its
\* route set has been cleaned up: the bookkeeping is gone, the kernel route stays.
C2_Witness ==
    /\ last_call.op = "cleanup_zone"
    /\ tasks = {}
    /\ zone_routes = EmptyMap
    /\ installed = EmptyMap
    /\ known_ips = EmptyMap
    /\ \E k \in DOMAIN kernel :
          LET zone == ZoneByName(last_call.zone)
          IN  kernel[k] = KernelTarget(zone.route_type, zone.route_target)

\* C9: after add_static_route(cidr, Z2) has registered an IPv4 static route,
\* every aggregate that process_ip later installs for a different zone Z1 is
\* carved around it: no route installed for Z1 after the registration covers an
\* address of the static CIDR range. (Read as narrowly as the claim allows:
\* aggregation is enabled, the registration still stands in known_ips, and the
\* address processed for Z1 lies outside the static range.)
C9_StaticCarved ==
    [][ (Enabled /\ calls' = calls + 1 /\ last_call'.op = "process_ip") =>
          \A s \in static_regs :
              (/\ s.zone # last_call'.zone
               /\ s.ip \in DOMAIN known_ips /\ known_ips[s.ip] = s.zone
               /\ ~Covers(<<s.ip, s.prefix_len>>, last_call'.ip))
              => \A k \in DOMAIN installed' :
                    (/\ k \notin DOMAIN installed
                     /\ installed'[k].zone_name = last_call'.zone)
                    => \A a \in Addrs :
                          ~(Covers(k, a) /\ Covers(<<s.ip, s.prefix_len>>, a))
      ]_vars

\* The route the kernel forwards address a by: the longest matching prefix.
KernelForward(a) ==
    LET ks == CoveringKeys(kernel, a)
    IN  IF ks = {} THEN <<>>
        ELSE kernel[CHOOSE k \in ks : \A j \in ks : j[2] <= k[2]]

\* The target `installed` assigns to address a.
InstalledForward(a) ==
    LET cov == find_covering_route(installed, a)
    IN  IF cov.found THEN KernelTarget(cov.owner.route_type, cov.owner.route_target)
        ELSE <<>>

\* C10: when two or more add_route calls for IPv4 addresses race (every
\* installer call succeeding, add-of-existing and remove-of-missing treated as
\* success), then once all calls have finished the kernel route table is
\* consistent with the aggregator's final `installed` map: every address is
\* forwarded to the target that `installed` assigns to it.
C10_KernelConverges ==
    (calls >= 2 /\ tasks = {} /\ ~failed) =>
        \A a \in Addrs : KernelForward(a) = InstalledForward(a)

\* ------------------------------------------------------------ the DNS cache

\* A lookup has just returned, at the current time.
LookupDone == cache_op.op = "lookup" /\ cache_op.at = now

\* C11 as stated (for an enabled cache): lookup(q, t) returns a response if
\* and only if some earlier insert with the same qname ignoring letter case
\* and the same qtype has a TTL that has not elapsed at the time of the lookup.
C11_LookupIffInsert ==
    (LookupDone /\ is_enabled(max_entries)) =>
        LET key == CacheKey(cache_op.qname, cache_op.qtype)
        IN  (cache_op.result # <<>>) <=>
                (key \in DOMAIN insert_deadline /\ insert_deadline[key] > now)

\* C11 amended: lookup(q, t) returns a response if and only if the most recent
\* insert for the same qname ignoring letter case and the same qtype, made
\* since the last clear, found room in the cache and its TTL has not elapsed;
\* the response is the one that insert stored.
C11_LookupIffLastInsert ==
    LookupDone =>
        LET key == CacheKey(cache_op.qname, cache_op.qtype)
            hit == /\ key \in DOMAIN last_insert
                   /\ last_insert[key].room
                   /\ now - last_insert[key].at < last_insert[key].ttl
        IN  /\ (cache_op.result # <<>>) <=> hit
            /\ hit => cache_op.result = << last_insert[key].message >>

\* A lookup hits, after time has passed, on an entry that was inserted under a
\* name of different letter case.
C11_Witness ==
    /\ LookupDone
    /\ cache_op.result # <<>>
    /\ now > 0
    /\ LET key == CacheKey(cache_op.qname, cache_op.qtype)
       IN  /\ key \in DOMAIN last_insert
           /\ last_insert[key].qname # cache_op.qname

\* The step is an insert call.
InsertStep == calls' = calls + 1 /\ cache_op'.op = "insert"

\* C12: the cache never holds more than max_entries entries (none when
\* max_entries = 0, where insert does nothing). An insert of a new key into a
\* full cache removes every expired entry; it is dropped, leaving all entries
\* as they were, only if none was expired; an entry within its TTL is never
\* evicted; an insert for a key already present replaces that entry.
C12_Capacity ==
    /\ [](Cardinality(DOMAIN cache_entries) <= max_entries)
    /\ [][ InsertStep =>
            LET key == cache_op'.key
                call == last_insert'[key]
                entry == [message |-> call.message, inserted_at |-> now, ttl |-> call.ttl]
                full == Cardinality(DOMAIN cache_entries) >= max_entries
                expired == { k \in DOMAIN cache_entries :
                               ~(now - cache_entries[k].inserted_at < cache_entries[k].ttl) }
            IN  /\ max_entries = 0 => cache_entries' = cache_entries
                /\ \A k \in (DOMAIN cache_entries) \ (expired \cup {key}) :
                      k \in DOMAIN cache_entries' /\ cache_entries'[k] = cache_entries[k]
                /\ (max_entries > 0 /\ key \in DOMAIN cache_entries) =>
                      cache_entries' = MapInsert(cache_entries, key, entry)
                /\ (max_entries > 0 /\ key \notin DOMAIN cache_entries /\ full) =>
                      /\ (DOMAIN cache_entries') \cap expired = {}
                      /\ key \notin DOMAIN cache_entries' =>
                            (expired = {} /\ cache_entries' = cache_entries)
                      /\ expired # {} =>
                            (key \in DOMAIN cache_entries' /\ cache_entries'[key] = entry)
         ]_vars

\* An insert of a new key has just been dropped by a full cache.
C12_Witness ==
    /\ cache_op.op = "insert"
    /\ max_entries > 0
    /\ Cardinality(DOMAIN cache_entries) = max_entries
    /\ cache_op.key \notin DOMAIN cache_entries

\* ---------------------------------------------------------- the zone matcher

\* The suffixes of a name that start at a label: the name itself, the name
\* without its first label, without its first two labels, ...
LabelSuffixes(qname) ==
    { SubSeq(qname, i + 1, Len(qname)) :
        i \in { j \in 0..Len(qname) : j = 0 \/ qname[j] = "." } }

\* Whether a zone selects a name: an inclusive zone when some domain is a
\* label suffix of the name or some pattern matches it, an exclusive zone
\* when none does.
Selects(zone, qname) ==
    LET any == \/ \E i \in DOMAIN zone.domains : zone.domains[i] \in LabelSuffixes(qname)
               \/ \E i \in DOMAIN zone.patterns : pattern_is_match(zone.patterns[i], qname)
    IN  IF zone.mode = "Inclusive" THEN any ELSE ~any

\* A find_zone call has returned.
FindZoneDone == match_call.op = "find_zone"

\* C16: find_zone returns the first zone, in configured order, that selects
\* the name (trailing dots aside), and none when no zone selects it; a name an
\* exclusive zone excludes falls through to the zones after it.
C16_FirstSelectingZone ==
    FindZoneDone =>
        LET q == trim_end_matches_dot(match_call.qname)
            sel == { i \in DOMAIN matcher_zones : Selects(matcher_zones[i], q) }
        IN  IF sel = {} THEN match_call.result = <<>>
            ELSE match_call.result =
                    << matcher_zones[CHOOSE i \in sel : \A j \in sel : i <= j] >>

\* find_zone returned the second zone of the list after an exclusive first
\* zone excluded the name.
C16_Witness ==
    /\ FindZoneDone
    /\ Len(matcher_zones) >= 2
    /\ matcher_zones[1].mode = "Exclusive"
    /\ match_call.result = << matcher_zones[2] >>

\* C17: when find_zone over the zone list returns zone Z for a name, find_zone
\* over that list followed by any further zones returns Z as well.
C17_LaterZonesIrrelevant ==
    (FindZoneDone /\ match_call.result # <<>>) =>
        \A more \in ZoneLists :
            find_zone(matcher_zones \o more, match_call.qname) = match_call.result

\* find_zone returned a zone for a name that a zone not in the list, placed
\* first, would have taken.
C17_Witness ==
    /\ FindZoneDone
    /\ match_call.result # <<>>
    /\ \E z \in ZonePool :
          /\ \A i \in DOMAIN matcher_zones : matcher_zones[i] # z
          /\ find_zone(<< z >>, match_call.qname) = << z >>

\* Two names that differ only in letter case or in one trailing dot.
strip_one_dot(s) ==
    IF s # <<>> /\ s[Len(s)] = "." THEN SubSeq(s, 1, Len(s) - 1) ELSE s

SameName(q1, q2) ==
    to_lowercase(strip_one_dot(q1)) = to_lowercase(strip_one_dot(q2))

\* C18: find_zone strips one trailing dot and lowercases the name before it
\* matches: names that differ only in letter case or in one trailing dot get
\* the same result.
C18_NormalizedName ==
    FindZoneDone =>
        \A q \in MatchNames :
            SameName(q, match_call.qname) =>
                find_zone(matcher_zones, q) = match_call.result

\* A query (op code Query) has been answered; `answered` holds it.
QueryAnswered == answered.id # 0 /\ answered.qname # <<>>

\* The handle_request calls in flight.
InFlight == { r \in requests : r.pc # "done" }

\* A step in which the failover loop of call r ends with the given outcome.
LoopEnds(r, r2) == r.pc = "forward" /\ r2 \in requests' /\ r2.id = r.id /\ r2.pc = "send"

\* C13: an upstream response with response code ServFail is never inserted
\* into the cache, the failure of every upstream inserts nothing, and no cache
\* hit serves a ServFail response.
C13_ServFailNeverCached ==
    /\ [](\A k \in DOMAIN cache_entries : cache_entries[k].message.rcode # "ServFail")
    /\ [](\A r \in InFlight : r.from_cache => r.out[1].rcode # "ServFail")
    /\ [](QueryAnswered /\ answered.from_cache => answered.response[1].rcode # "ServFail")
    /\ [][\A r \in requests : \A r2 \in requests' :
            (LoopEnds(r, r2) /\ (r2.result = <<>> \/ r2.result[1].message.rcode = "ServFail"))
                => cache_entries' = cache_entries]_vars

\* A query was answered with the ServFail response of an upstream while the
\* cache was enabled and had room, and the cache holds nothing for it.
C13_Witness ==
    /\ QueryAnswered
    /\ is_enabled(max_entries)
    /\ answered.result # <<>>
    /\ answered.result[1].message.rcode = "ServFail"
    /\ answered.response[1].rcode = "ServFail"
    /\ cache_entries = EmptyMap

\* The attempts of call r are on the first upstreams of its list, in order,
\* one each, and only the last of them may have succeeded.
InOrder(r) ==
    /\ Len(r.attempts) <= Len(r.upstreams)
    /\ \A i \in DOMAIN r.attempts :
          /\ r.attempts[i].upstream = r.upstreams[i].address
          /\ i < Len(r.attempts) => ~r.attempts[i].res.ok
    /\ r.pc = "forward" => \A i \in DOMAIN r.attempts : ~r.attempts[i].res.ok

\* What the client of the answered query r received is the first successful
\* response or, every upstream having failed, the error of the last attempt.
FailoverOutcome(r) ==
    LET n == Len(r.attempts)
    IN  /\ n >= 1
        /\ IF r.attempts[n].res.ok
           THEN r.response = << r.attempts[n].res.message >>
           ELSE /\ n = Len(r.upstreams)
                /\ r.response = << error_msg(r.id, r.attempts[n].res.rcode) >>

\* C14: on a cache miss the upstreams are tried one after another in
\* configuration order, each at most once and none after the first success;
\* the client receives the first successful response or, when every upstream
\* failed, the error code of the last attempt.
C14_SequentialFailover ==
    /\ \A r \in InFlight : InOrder(r)
    /\ (QueryAnswered /\ ~answered.from_cache) =>
          InOrder(answered) /\ FailoverOutcome(answered)

\* A query got the response of its second upstream after the first failed,
\* while another was answered by its first upstream, the second never tried.
C14_Witness ==
    /\ QueryAnswered
    /\ Len(answered.upstreams) = 2
    /\ Len(answered.attempts) = 2
    /\ ~answered.attempts[1].res.ok
    /\ answered.attempts[2].res.ok
    /\ answered.response = << answered.attempts[2].res.message >>
    /\ \E r \in InFlight :
          /\ r.pc = "send"
          /\ Len(r.upstreams) = 2
          /\ Len(r.attempts) = 1
          /\ r.attempts[1].res.ok

\* The ids of the handle_request calls made so far.
RequestIds(rs) == { r.id : r \in rs }

\* The cache is enabled and holds an entry for the name and type of query r
\* that is within its ttl.
LiveEntry(r) ==
    /\ is_enabled(max_entries)
    /\ CacheKey(r.qname, r.qtype) \in DOMAIN cache_entries
    /\ entry_live(cache_entries[CacheKey(r.qname, r.qtype)], now)

\* C15: a query for which the enabled cache holds an entry within its ttl, a
\* negative entry included, is answered from the cache: the cached header and
\* records with the id of the current request, and no upstream is contacted.
C15_CacheHit ==
    /\ [][\A r2 \in requests' :
            (r2.id \notin RequestIds(requests) /\ LiveEntry(r2)) =>
                /\ r2.pc = "send"
                /\ r2.from_cache
                /\ r2.out = << [cache_entries[CacheKey(r2.qname, r2.qtype)].message
                                   EXCEPT !.id = r2.id] >>]_vars
    /\ [](\A r \in InFlight : r.from_cache => r.attempts = <<>> /\ r.out[1].id = r.id)
    /\ [](QueryAnswered /\ answered.from_cache =>
            /\ answered.attempts = <<>>
            /\ answered.response = answered.out
            /\ answered.response[1].id = answered.id)

\* The second query of a name was answered from the negative entry the first
\* one left, under its own id.
C15_Witness ==
    /\ QueryAnswered
    /\ answered.from_cache
    /\ answered.id = 2
    /\ answered.attempts = <<>>
    /\ answered.response = << Message(2, "NXDomain", <<>>) >>

\* A step in which a route operation for the answers of a query fails while
\* the query is being handled.
RouteFailureStep ==
    \E r \in requests : ~r.route_failed /\ [r EXCEPT !.route_failed = TRUE] \in requests'

C20_ServfailMode ==
    (QueryAnswered /\ config.route_failure_mode = "Servfail" /\ answered.route_failed) =>
        answered.response[1].rcode = "ServFail"

\* The step puts address ip into the per-zone set of the zone.
Gains(zone_name, ip) ==
    /\ ~(zone_name \in DOMAIN zone_routes /\ ip \in zone_routes[zone_name])
    /\ zone_name \in DOMAIN zone_routes' /\ ip \in zone_routes'[zone_name]

\* The step ends call t (add_route or add_static_route).
Returns(t) == t \in tasks /\ \A t2 \in tasks' : t2.id # t.id

\* C24: an address enters the per-zone set of a zone only in the step that ends
\* a call for that address and zone all of whose installer calls succeeded; a
\* call ended by a failed device-file read or installer call adds nothing.
C24_RecordedAfterSuccess ==
    [][/\ \A zone_name \in ZoneNames, ip \in Addrs :
             Gains(zone_name, ip) =>
                 \E t \in tasks : /\ Returns(t)
                                  /\ t.zone = zone_name /\ t.ip = ip
                                  /\ t.pending = <<>>
       /\ \A t \in tasks :
             (Returns(t) /\ t.pending # <<>>) => zone_routes' = zone_routes]_vars

\* A call was ended by a failure, another one succeeded, and only the address
\* of the latter is in a per-zone set.
C24_Witness ==
    /\ failed
    /\ tasks = {}
    /\ calls = 2
    /\ \E zone_name \in DOMAIN zone_routes :
          /\ Cardinality(zone_routes[zone_name]) = 1
          /\ \A z \in DOMAIN zone_routes : z = zone_name

\* C25: whenever add_route(ip, zone) returns success, ip is in the per-zone
\* set of the zone: here for the call that returns at once because process_ip
\* gave it no action.
C25_SuccessRecorded ==
    (last_call.op = "process_ip" /\ actions = <<>>) =>
        /\ last_call.zone \in DOMAIN zone_routes
        /\ last_call.ip \in zone_routes[last_call.zone]

\* An aggregate of another zone has been carved around address k of the zone:
\* k is known for the zone and lies in no installed route, while routes of the
\* other zone cover the rest of k's aggregate range.
CarvedAround(k, zone_name) ==
    /\ Enabled
    /\ k \in DOMAIN known_ips
    /\ known_ips[k] = zone_name
    /\ CoveringKeys(installed, k) = {}
    /\ \E z1 \in ZoneNames \ {zone_name} :
          \A a \in AggRange(k) \ {k} :
              \E key \in CoveringKeys(installed, a) : installed[key].zone_name = z1

\* C30: after an aggregate of zone Z1 was carved around address k of zone Z2,
\* the next process_ip(k, Z2) installs (k, 32) for Z2, emits the Add for it,
\* and installs no route of Z2 that overlaps a route of another zone.
C30_HostRouteAfterCarve ==
    [][\A k \in IPs, zone \in Zones :
          (/\ CarvedAround(k, zone.name)
           /\ calls' = calls + 1
           /\ last_call' = [op |-> "process_ip", ip |-> k, zone |-> zone.name])
          => /\ <<k, AddrBits>> \in DOMAIN installed'
             /\ installed'[<<k, AddrBits>>].zone_name = zone.name
             /\ \E i \in DOMAIN actions' :
                   actions'[i] = ActionAdd(k, AddrBits, zone.route_type, zone.route_target)
             /\ \A a \in Addrs :
                   \A key1, key2 \in CoveringKeys(installed', a) :
                       installed'[key1].zone_name = zone.name
                           => installed'[key2].zone_name = zone.name]_vars

\* An upstream selection with a resolve_cache_ttl call has returned.
ResolveDone == ttl_call.op = "resolve"

\* The setting a TTL is resolved with: the override of the server that
\* answered, else the override of the matched zone, else the global default.
Precedence(field) ==
    LET server_cfg == ttl_call.server_cfg
        zone == ttl_call.zone
    IN  IF server_cfg # <<>> /\ server_cfg[1][field] # <<>> THEN server_cfg[1][field][1]
        ELSE IF zone # <<>> /\ zone[1][field] # <<>> THEN zone[1][field][1]
        ELSE config[field]

\* The response gets a negative cache entry.
IsNegative(message) == message.rcode = "NXDomain" \/ message.answers = <<>>

\* The smallest TTL of the answer records.
RecordMin(message) ==
    CHOOSE m \in { message.answers[i].ttl : i \in DOMAIN message.answers } :
        \A i \in DOMAIN message.answers : m <= message.answers[i].ttl

\* C27: min_ttl, max_ttl and negative_ttl are each resolved on their own,
\* from the override of the upstream server that answered, else the override
\* of the matched zone, else the global default: the TTL is the one these
\* three settings give (and the call fails when min_ttl exceeds max_ttl).
C27_TtlPrecedence ==
    ResolveDone =>
        IF IsNegative(ttl_call.message)
        THEN ttl_call.result = << Precedence("cache_negative_ttl") >>
        ELSE IF Precedence("cache_min_ttl") > Precedence("cache_max_ttl")
        THEN ttl_call.result = <<>>
        ELSE LET m == RecordMin(ttl_call.message)
             IN  ttl_call.result =
                    << IF m < Precedence("cache_min_ttl") THEN Precedence("cache_min_ttl")
                       ELSE IF m > Precedence("cache_max_ttl")
                       THEN Precedence("cache_max_ttl")
                       ELSE m >>

\* A query of the zone was answered by a default upstream (the zone has no
\* servers), and the TTL came from the zone's max_ttl override and the global
\* min_ttl.
C27_Witness ==
    /\ ResolveDone
    /\ ttl_call.zone # <<>>
    /\ ttl_call.server_cfg = <<>>
    /\ ttl_call.zone[1].cache_max_ttl = <<1>>
    /\ ttl_call.zone[1].cache_min_ttl = <<>>
    /\ ttl_call.message.answers = << [ip |-> 0, ttl |-> 7] >>
    /\ ttl_call.message.rcode = "NoError"
    /\ ttl_call.result = <<1>>

\* C28: the TTL a response is cached with is negative_ttl when the response
\* code is NXDomain or there is no answer record, and otherwise the smallest
\* TTL of the answer records brought into [min_ttl, max_ttl].
C28_CachedTtl ==
    ResolveDone =>
        /\ ttl_call.result # <<>>
        /\ IF IsNegative(ttl_call.message)
           THEN ttl_call.result[1] = Precedence("cache_negative_ttl")
           ELSE LET m == RecordMin(ttl_call.message)
                    lo == Precedence("cache_min_ttl")
                    hi == Precedence("cache_max_ttl")
                IN  ttl_call.result[1] =
                        (IF m < lo THEN lo ELSE IF m > hi THEN hi ELSE m)

\* C29: when find_zone selects a zone with a non-empty dns_servers list, the
\* upstreams are that zone's servers in configured order and the protocol is
\* the zone's dns_protocol; in every other case the upstreams are
\* server.default_upstream in order and the protocol is UDP.
C29_UpstreamSelection ==
    ResolveDone =>
        LET zone == find_zone(matcher_zones, ttl_call.qname)
            addresses == [i \in DOMAIN ttl_call.upstreams |-> ttl_call.upstreams[i].address]
        IN  IF zone # <<>> /\ zone[1].dns_servers # <<>>
            THEN /\ addresses = [i \in DOMAIN zone[1].dns_servers |->
                                    zone[1].dns_servers[i].address]
                 /\ ttl_call.protocol = zone[1].dns_protocol
            ELSE /\ addresses = config.default_upstream
                 /\ ttl_call.protocol = "Udp"

\* A zone with dns_protocol tcp and no servers was selected: the default
\* upstreams are used over UDP.
C29_Witness ==
    /\ ResolveDone
    /\ ttl_call.zone # <<>>
    /\ ttl_call.zone[1].dns_servers = <<>>
    /\ ttl_call.zone[1].dns_protocol = "Tcp"
    /\ ttl_call.protocol = "Udp"
    /\ Len(ttl_call.upstreams) = 2
    /\ ttl_call.upstreams[1].address = "d1"

\* The generation of the handler: its configuration, its matcher and its
\* cache (a cache of another size is another cache).
Generation == <<config, config_zones, matcher_zones, max_entries>>

\* C21: while a query is handled the reload task does not hold the lock, the
\* matcher, the configuration and the cache are those of one configuration
\* and the ones the query started with, no step replaces any of them, and no
\* step drops the query; the queries received are all answered in the end
\* (an answered query is never in flight again).
C21_OneGeneration ==
    /\ [](InFlight # {} =>
            /\ reload.pc \in {"idle", "wait"}
            /\ matcher_zones = config_zones
            /\ max_entries = config.cache_size
            /\ \A r \in InFlight : ~r.from_cache =>
                  /\ r.zone = find_zone(matcher_zones, r.qname)
                  /\ r.upstreams = upstreams_for(r.zone, config))
    /\ [][InFlight # {} =>
            /\ Generation' = Generation
            /\ \A r \in InFlight : \E r2 \in requests' : r2.id = r.id]_vars
    /\ <>[](InFlight = {})

\* A new configuration waits for the write lock while a query, received
\* before it, is about to be answered.
C21_Witness == reload.pc = "wait" /\ \E r \in requests : r.pc = "send"

\* The reload task has taken the write lock for a configuration whose zone
\* matcher cannot be built.
MatcherFails ==
    /\ reload.new # <<>>
    /\ reload.before # <<>>
    /\ zone_matcher_new(reload.new[1].zones) = <<>>

\* C23: a reload whose zone matcher cannot be built ends at the construction
\* of the matcher; configuration, matcher and cache are then the ones the
\* reload found, the cache with the contents it found, and the queries
\* received afterwards are handled with that matcher and that configuration
\* and are answered.
C23_FailedReloadKeepsOld ==
    /\ [](MatcherFails =>
            /\ reload.pc \in {"cleanup", "idle"}
            /\ config = reload.before[1][1]
            /\ config_zones = reload.before[1][2]
            /\ matcher_zones = reload.before[1][3]
            /\ max_entries = reload.before[1][5]
            /\ reload.pc = "cleanup" => cache_entries = reload.before[1][4])
    /\ [][MatcherFails =>
            /\ reload.pc = "cleanup" /\ reload'.pc # "cleanup" =>
                  /\ reload'.pc = "idle"
                  /\ reload'.outcome = "failed"
                  /\ cache_entries' = reload.before[1][4]
            /\ \A r \in requests' : r.id \notin RequestIds(requests) /\ ~r.from_cache =>
                  /\ r.zone = find_zone(reload.before[1][3], r.qname)
                  /\ r.upstreams = upstreams_for(r.zone, reload.before[1][1])]_vars
    /\ (MatcherFails /\ InFlight # {}) ~> (InFlight = {})

\* After a reload that failed at the matcher, a query is answered from the
\* cache entry an earlier query left.
C23_Witness ==
    /\ MatcherFails
    /\ reload.outcome = "failed"
    /\ answered.id # 0
    /\ \E r \in requests : r.pc = "send" /\ r.from_cache

\* The zone names of the old configuration that the new one lacks, and the
\* zones of the new configuration whose name the old one lacks.
Removed == zone_names(reload.old_zones) \ zone_names(reload.new[1].zones)

Added ==
    { z \in { reload.new[1].zones[i] : i \in DOMAIN reload.new[1].zones } :
        z.name \notin zone_names(reload.old_zones) }

\* C22: a reload calls cleanup_zone of the route manager only for names of
\* the old configuration that the new one lacks, one call for each of them
\* before the matcher is built, and the routes recorded for a zone are
\* dropped by no other step; the new zones are the zones of the new
\* configuration whose name the old one lacks.
C22_ZoneDiff ==
    /\ [](reload.pc \notin {"idle", "wait"} =>
            /\ reload.cleaned \subseteq Removed
            /\ reload.pc # "cleanup" => reload.cleaned = Removed
            /\ { reload.new_zones[i] : i \in DOMAIN reload.new_zones } = Added)
    /\ [][/\ reload'.cleaned # reload.cleaned /\ reload'.pc = "cleanup" =>
                \E zone_name \in Removed \ reload.cleaned :
                    /\ reload'.cleaned = reload.cleaned \cup {zone_name}
                    /\ last_call' = [op |-> "cleanup_zone", zone |-> zone_name]
                    /\ zone_name \notin DOMAIN zone_routes'
          /\ reload.pc = "cleanup" /\ reload'.pc # "cleanup" => reload.cleaned = Removed
          /\ \A zone_name \in DOMAIN zone_routes \ DOMAIN zone_routes' :
                reload.pc = "cleanup" /\ zone_name \in Removed]_vars

\* A reload from the zones corp and vpn to the zones vpn and huge has cleaned
\* up corp; vpn, in both, keeps its recorded route, and huge is new.
C22_Witness ==
    /\ reload.pc = "cleanup"
    /\ reload.cleaned = {"corp"}
    /\ "vpn" \in zone_names(reload.old_zones) \cap zone_names(reload.new[1].zones)
    /\ "vpn" \in DOMAIN zone_routes
    /\ reload.new_zones = << HugeZone >>

\* Every static route of the current configuration is in the kernel table.
AllStaticInstalled ==
    \A i \in DOMAIN static_items(config_zones) :
        <<static_items(config_zones)[i].cidr[1], static_items(config_zones)[i].cidr[2]>>
            \in DOMAIN kernel

\* An apply_static_routes pass that is over.
PassOver(p) == p.pc = "pass" /\ p.items = <<>>

C31_FailedReloadKeepsRoutes ==
    [][MatcherFails /\ reload.pc = "cleanup" =>
          UNCHANGED <<installed, known_ips, zone_routes>>]_vars

\* What the route manager tracks for a zone: the keys of `installed` it owns,
\* its known addresses, and its per-zone route set.
ZoneTracking(zone_name) ==
    << { k \in DOMAIN installed : installed[k].zone_name = zone_name },
       { ip \in DOMAIN known_ips : known_ips[ip] = zone_name },
       IF zone_name \in DOMAIN zone_routes THEN << zone_routes[zone_name] >> ELSE <<>> >>

\* C31 (amended): a reload whose zone matcher cannot be built leaves what is
\* tracked for the zones whose name is in both configurations as it was, and
\* has purged, when it gives up, what was tracked for the zones of the
\* retained configuration that the rejected one lacks.
C31_FailedReloadPurgesRemoved ==
    [][MatcherFails /\ reload.pc = "cleanup" =>
          /\ \A zone_name \in ZoneNamesOfConfigs \ Removed :
                ZoneTracking(zone_name)' = ZoneTracking(zone_name)
          /\ reload'.pc # "cleanup" =>
                \A zone_name \in Removed :
                    ZoneTracking(zone_name)' = << {}, {}, <<>> >>]_vars

\* A reload from the zones corp and vpn to a configuration without corp has
\* failed at the matcher: corp is still configured, what was tracked for it is
\* gone, and vpn still has its route set.
C31_Witness ==
    /\ MatcherFails
    /\ reload.outcome = "failed"
    /\ "corp" \in zone_names(config_zones)
    /\ reload.cleaned = {"corp"}
    /\ ZoneTracking("corp") = << {}, {}, <<>> >>
    /\ "vpn" \in DOMAIN zone_routes

\* C35: once a reload is applied, nothing is tracked, then or later, for a
\* zone of the old configuration that the new one lacks: no key of
\* `installed`, no known address, no per-zone route set.
C35_RemovedZoneStaysPurged ==
    reload.outcome = "applied" =>
        \A zone_name \in Removed : ZoneTracking(zone_name) = << {}, {}, <<>> >>

\* The add_route call of route task f for its next address has returned.
AddRouteReturned(f) ==
    /\ f \in fanout
    /\ \A g \in fanout' : g.id = f.id => g.ips # f.ips

\* C40: after an applied reload, an add_route call of a route task for a
\* zone of the new configuration that the old one did not have as it is
\* leaves the address covered by a route of `installed` with the route type
\* and target of that zone.
C40_NewTargetAfterReload ==
    [][\A f \in fanout :
          /\ reload.outcome = "applied"
          /\ f.zone \in { config_zones[i] : i \in DOMAIN config_zones }
          /\ f.zone \notin { reload.old_zones[i] : i \in DOMAIN reload.old_zones }
          /\ AddRouteReturned(f)
          => LET cov == find_covering_route(installed', Head(f.ips))
             IN  /\ cov.found
                 /\ cov.owner.route_type = f.zone.route_type
                 /\ cov.owner.route_target = f.zone.route_target]_vars

\* C37: a resolve_cache_ttl call for a response with an answer record (and a
\* response code other than NXDomain) returns, and what it returns lies
\* between the min_ttl and the max_ttl in force.
C37_TtlWithinBounds ==
    ResolveDone /\ ~IsNegative(ttl_call.message) =>
        /\ ttl_call.result # <<>>
        /\ Precedence("cache_min_ttl") <= ttl_call.result[1]
        /\ ttl_call.result[1] <= Precedence("cache_max_ttl")

\* The step is a process_ip call of the aggregator.
ProcessIpStep == calls' # calls /\ last_call'.op = "process_ip"

\* C38: whatever the order in which a process_ip call gets its conflicts, it
\* leaves the same `installed` (keys and owners) and the same known_ips.
C38_OrderIndependentInstalled ==
    [][ProcessIpStep =>
          LET zone == ZoneByName(last_call'.zone)
          IN  \A order \in CallOrders(last_call'.ip, zone) :
                  LET r == Call(last_call'.ip, zone, order)
                  IN  r.installed = installed' /\ r.known_ips = known_ips']_vars

\* A call that waits for a guard another call holds.
Blocked(c) ==
    \/ c.pc = "lock_agg" /\ ~agg_free(c)
    \/ c.pc = "lock_routes" /\ ~routes_free(c)

\* Call c waits for a guard that call d holds.
WaitsFor(c, d) ==
    /\ c.id # d.id
    /\ \/ c.pc = "lock_agg" /\ d.agg
       \/ c.pc = "lock_routes" /\ d.routes

\* C32: the guard of the aggregator mutex is held only by a call that is
\* computing process_ip, register_static_ip or cleanup_zone, so never by a
\* call that is at an installer call or reads a device file; and concurrent
\* add_route, add_static_route and cleanup_zone calls never deadlock on the
\* aggregator mutex and the lock of the route sets: at most one call holds
\* each guard, no two calls wait for each other, and while calls are under
\* way one of them can go on.
C32_AggregatorLock ==
    /\ \A c \in tasks :
            /\ c.agg => c.pc = "locked_agg"
            /\ c.pc \in {"execute", "read_device"} => ~c.agg /\ ~c.routes
    /\ \A c, d \in tasks : c.id # d.id => ~(c.agg /\ d.agg) /\ ~(c.routes /\ d.routes)
    /\ \A c, d \in tasks : ~(WaitsFor(c, d) /\ WaitsFor(d, c))
    /\ tasks # {} => \E c \in tasks : ~Blocked(c)

\* A cleanup_zone holding the route sets waits for the aggregator mutex that
\* an add_route holds, while another call waits for the route sets.
C32_Witness ==
    \E c, d, w \in tasks :
        /\ c.op = "cleanup_zone" /\ c.routes /\ c.pc = "lock_agg"
        /\ d.op = "add_route" /\ d.agg
        /\ w.op \in {"add_route", "add_static_route"} /\ w.pc = "lock_routes"

\* The step by which a reload is applied: apply_static_routes has returned
\* and the write lock of the handler is released.
ReloadApplied == reload.pc = "static" /\ reload'.pc = "idle" /\ reload'.outcome = "applied"

\* The cache entries a step inserts or replaces.
Inserted == { key \in DOMAIN cache_entries' :
                key \notin DOMAIN cache_entries \/ cache_entries'[key] # cache_entries[key] }

\* C33: when a reload is applied the cache is empty immediately afterwards,
\* and no response obtained for a query handled under the old configuration
\* is inserted into or served from the cache after the reload: at the step
\* that applies the reload the cache is empty and every query received so far
\* has been answered; an answered query takes no further step; and a cache
\* entry is only ever inserted by a query in flight, holding the response to
\* that query, never while the reload task holds the write lock.
C33_CacheAfterReload ==
    /\ [][ReloadApplied => cache_entries' = EmptyMap /\ InFlight' = {}]_vars
    /\ [](reload.pc \in {"update_config", "update_matcher", "static"}
            => cache_entries = EmptyMap /\ InFlight = {})
    /\ [][\A r \in requests : r.pc = "done" => r \in requests']_vars
    /\ [][\A key \in Inserted :
            /\ reload.pc \in {"idle", "wait"}
            /\ \E r \in InFlight :
                  /\ r.pc = "forward"
                  /\ cache_entries'[key].message.id = r.id]_vars

\* A reload was applied to a handler whose cache held an entry, and a query
\* received after the reload has put its response into the new cache.
C33_Witness ==
    /\ reload.outcome = "applied"
    /\ reload.before # <<>>
    /\ reload.before[1][4] # EmptyMap
    /\ cache_entries # EmptyMap

\* C34: a query does not hold the read lock of the handler while it waits for
\* an upstream: a reload that waits for the write lock while the queries in
\* flight all wait for an upstream (and no static-route pass runs) finds the
\* lock free, and a query that arrives while the reload waits is granted the
\* read lock.
C34_ReadLockBrief ==
    reload.pc = "wait" /\ InFlight # {} /\ (\A r \in InFlight : r.pc = "forward")
                       /\ (\A p \in passes : p.pc # "pass")
        => ~read_locked /\ read_granted(reload)

\* C36: the actions an add_route call did not apply because an installer
\* call failed are issued again by a later add_route for the same address
\* and zone: when the most recent add_route failed, leaving in `installed` a
\* route of its zone that covers its address and is missing from the kernel,
\* and no call is in flight, a further add_route for that address and zone
\* emits actions.
C36_FailedActionsReissued ==
    [][(/\ calls' # calls
        /\ last_call'.op = "process_ip"
        /\ last_call.op = "process_ip"
        /\ last_call'.ip = last_call.ip
        /\ last_call'.zone = last_call.zone
        /\ failed
        /\ tasks = {}
        /\ \E k \in DOMAIN installed :
              /\ k \notin DOMAIN kernel
              /\ Covers(k, last_call.ip)
              /\ installed[k].zone_name = last_call.zone)
        => actions' # <<>>
      ]_vars

\* The kernel table holds the routes of `installed`: the same networks and
\* prefix lengths, each with the type and target of its owner.
KernelIsInstalled ==
    /\ DOMAIN kernel = DOMAIN installed
    /\ \A k \in DOMAIN installed :
          kernel[k] = KernelTarget(installed[k].route_type, installed[k].route_target)

\* C39: with add_route calls executed one at a time, every installer call
\* succeeding, an initially empty kernel table and no static routes or
\* cleanup_zone, the kernel routes equal `installed` whenever no call is in
\* flight, that is after each add_route has returned.
C39_KernelIsInstalled == tasks = {} => KernelIsInstalled

\* Calls have returned after an aggregate of one zone was split for an
\* address of another zone: routes of both zones, one of them wider than a
\* single address, and an address recorded for each zone.
C39_Witness ==
    /\ tasks = {}
    /\ \E k, j \in DOMAIN installed :
          /\ installed[k].zone_name # installed[j].zone_name
          /\ k[2] < AddrBits
    /\ \E y, z \in DOMAIN zone_routes : y # z

====
